---- MODULE Spec2Model ----
(***************************************************************************)
(* Model of the AML resource-data code generator                           *)
(* (AmlResourceDataCodeGen.c) and of the SSDT CPU topology generator       *)
(* (SsdtCpuTopologyGenerator.c).                                           *)
(*                                                                         *)
(* Unsigned integers of the C code are little-endian byte sequences, so    *)
(* that UINT16/UINT32/UINT64 keep their width (arithmetic wraps modulo     *)
(* 2^(8*n) for an n-byte value) and a descriptor field is stored as the    *)
(* bytes the code writes.                                                  *)
(***************************************************************************)
EXTENDS Integers, Sequences, FiniteSets, TLC

VARIABLES
  chk,      \* one call of CheckAddressSpaceFields: its arguments and status
  unit,     \* the calls of WriteAslName or of TokenTableAdd made on their own
  heap,     \* the allocated data nodes: node -> the bytes of its buffer
  nextNode, \* the node the next AmlCreateDataNode returns
  rdList,   \* the variable argument list of the Buffer object: its nodes in order
  slot,     \* the caller's variable that NewRdNode points to
  freed,    \* the nodes given to AmlDeleteTree
  call,     \* the last encoder call: its arguments and what it returned
  cm,       \* the objects of the Configuration Manager and the failing service
  gen,      \* the fields of SsdtCpuTopologyGenerator and the pools it allocated
  aml,      \* the definition block being built: its root and its nodes
  pass      \* BuildSsdtCpuTopologyTable: where it is, its frames, what it returned

rdVars == <<heap, nextNode, rdList, slot, freed, call>>

topoVars == <<cm, gen, aml, pass>>

vars == <<chk, unit, rdVars, topoVars>>

---------------------------------------------------------------------------
(* EFI_STATUS values                                                       *)
EFI_SUCCESS           == "EFI_SUCCESS"
EFI_INVALID_PARAMETER == "EFI_INVALID_PARAMETER"
EFI_OUT_OF_RESOURCES  == "EFI_OUT_OF_RESOURCES"
EFI_NOT_FOUND         == "EFI_NOT_FOUND"

EFI_ERROR(Status) == Status # EFI_SUCCESS

---------------------------------------------------------------------------
(* Fixed-width unsigned arithmetic on little-endian byte sequences.        *)

\* Number of small values and of values just below the top of the range
\* that the inputs of the validator are drawn from.
MaxLow  == 3
MaxHigh == 1

\* sizeof (UINT16), sizeof (UINT32), sizeof (UINT64)
SIZE_UINT16 == 2
SIZE_UINT32 == 4
SIZE_UINT64 == 8

\* The n-byte value k, for 0 <= k < 256.
Small(k, n) == [i \in 1..n |-> IF i = 1 THEN k ELSE 0]

\* The n-byte value 2^(8n) - 1 - k, for 0 <= k < 256.
Top(k, n) == [i \in 1..n |-> IF i = 1 THEN 255 - k ELSE 255]

\* Integer promotion of an unsigned value to an n-byte type (zero extension).
ZeroExtend(x, n) == [i \in 1..n |-> IF i <= Len(x) THEN x[i] ELSE 0]

\* Conversion of an unsigned value to a narrower n-byte type (truncation).
Truncate(x, n) == [i \in 1..n |-> x[i]]

IsZero(x) == \A i \in 1..Len(x) : x[i] = 0

\* The carry out of byte i of x + y: some byte at or below i overflows and
\* every byte from there up to i passes the carry on.
Carry(x, y, i) ==
  \E j \in 1..i :
     /\ x[j] + y[j] >= 256
     /\ \A k \in (j+1)..i : x[k] + y[k] >= 255

\* x + y modulo 2^(8 * Len(x))
AddBytes(x, y) ==
  [i \in 1..Len(x) |-> (x[i] + y[i] + (IF Carry(x, y, i - 1) THEN 1 ELSE 0)) % 256]

\* The borrow out of byte i of x - y.
Borrow(x, y, i) ==
  \E j \in 1..i :
     /\ x[j] < y[j]
     /\ \A k \in (j+1)..i : x[k] <= y[k]

\* x - y modulo 2^(8 * Len(x))
SubBytes(x, y) ==
  [i \in 1..Len(x) |-> (x[i] - y[i] - (IF Borrow(x, y, i - 1) THEN 1 ELSE 0) + 256) % 256]

\* x > y (unsigned)
GtBytes(x, y) ==
  \E i \in 1..Len(x) :
     /\ x[i] > y[i]
     /\ \A j \in (i+1)..Len(x) : x[j] = y[j]

RECURSIVE BitAnd(_, _)
BitAnd(a, b) ==
  IF a = 0 \/ b = 0 THEN 0
  ELSE (a % 2) * (b % 2) + 2 * BitAnd(a \div 2, b \div 2)

\* x & y
AndBytes(x, y) == [i \in 1..Len(x) |-> BitAnd(x[i], y[i])]

---------------------------------------------------------------------------
(* CheckAddressSpaceFields: all parameters are UINT64.                     *)

\* CheckAddressSpaceFields without the (IsMinFixed ^ IsMaxFixed) test.
CheckAddressSpaceFields_NoXor(IsMinFixed, IsMaxFixed, AddressGranularity, AddressMinimum, AddressMaximum, AddressTranslation, RangeLength) ==
  LET One  == Small(1, SIZE_UINT64)
      Span == AddBytes(SubBytes(AddressMaximum, AddressMinimum), One)
  IN
  IF \/ GtBytes(AddressMinimum, AddressMaximum)
     \/ GtBytes(RangeLength, Span)
     \/ /\ ~IsZero(AddressGranularity)
        /\ ~IsZero(AndBytes(AddBytes(AddressGranularity, One),
                            AddressGranularity))
  THEN EFI_INVALID_PARAMETER
  ELSE IF ~IsZero(RangeLength)
  THEN IF FALSE
       THEN EFI_INVALID_PARAMETER
       ELSE IF /\ IsMinFixed
               /\ IsMaxFixed
               /\ ~IsZero(AddressGranularity)
               /\ Span # RangeLength
       THEN EFI_INVALID_PARAMETER
       ELSE EFI_SUCCESS
  ELSE IF IsMinFixed /\ IsMaxFixed
       THEN EFI_INVALID_PARAMETER
       ELSE IF /\ IsMinFixed
               /\ ~IsZero(AndBytes(AddressMinimum, AddressGranularity))
       THEN EFI_INVALID_PARAMETER
       ELSE IF /\ IsMaxFixed
               /\ ~IsZero(AndBytes(AddBytes(AddressMaximum, One),
                                   AddressGranularity))
       THEN EFI_INVALID_PARAMETER
       ELSE EFI_SUCCESS

CheckAddressSpaceFields(IsMinFixed, IsMaxFixed, AddressGranularity, AddressMinimum, AddressMaximum, AddressTranslation, RangeLength) ==
  LET One  == Small(1, SIZE_UINT64)
      Span == AddBytes(SubBytes(AddressMaximum, AddressMinimum), One)
  IN
  IF \/ GtBytes(AddressMinimum, AddressMaximum)
     \/ GtBytes(RangeLength, Span)
     \/ /\ ~IsZero(AddressGranularity)
        /\ ~IsZero(AndBytes(AddBytes(AddressGranularity, One),
                            AddressGranularity))
  THEN EFI_INVALID_PARAMETER
  ELSE IF ~IsZero(RangeLength)
  THEN IF IsMinFixed # IsMaxFixed
       THEN EFI_INVALID_PARAMETER
       ELSE IF /\ IsMinFixed
               /\ IsMaxFixed
               /\ ~IsZero(AddressGranularity)
               /\ Span # RangeLength
       THEN EFI_INVALID_PARAMETER
       ELSE EFI_SUCCESS
  ELSE IF IsMinFixed /\ IsMaxFixed
       THEN EFI_INVALID_PARAMETER
       ELSE IF /\ IsMinFixed
               /\ ~IsZero(AndBytes(AddressMinimum, AddressGranularity))
       THEN EFI_INVALID_PARAMETER
       ELSE IF /\ IsMaxFixed
               /\ ~IsZero(AndBytes(AddBytes(AddressMaximum, One),
                                   AddressGranularity))
       THEN EFI_INVALID_PARAMETER
       ELSE EFI_SUCCESS

---------------------------------------------------------------------------
(* Flag composers.                                                         *)

MAX_UINT8 == 255
BIT0 == 1
BIT1 == 2
BIT2 == 4
BIT3 == 8
BIT4 == 16
BIT5 == 32

RECURSIVE BitOr(_, _)
BitOr(a, b) ==
  IF a = 0 THEN b
  ELSE IF b = 0 THEN a
  ELSE (IF a % 2 = 1 \/ b % 2 = 1 THEN 1 ELSE 0) + 2 * BitOr(a \div 2, b \div 2)

\* The conversion of an int expression to the UINT8 a function returns.
ToUint8(x) == x % 256

RdIoRangeSpecificFlags(IsaRanges, IsDenseTranslation, IsTypeStatic) ==
  IF IsaRanges > 3 THEN MAX_UINT8
  ELSE ToUint8(BitOr(BitOr(IsaRanges, IF IsTypeStatic THEN 0 ELSE BIT4), IF IsDenseTranslation THEN 0 ELSE BIT5))

\* MemoryRangeSpecificFlags with MemoryRangeType shifted by two bits.
MemoryRangeSpecificFlags_Shift2(Cacheable, IsReadWrite, MemoryRangeType, IsTypeStatic) ==
  IF Cacheable > 3 \/ MemoryRangeType > 3 THEN MAX_UINT8
  ELSE ToUint8(BitOr(BitOr(BitOr(IF IsReadWrite THEN BIT0 ELSE 0, Cacheable * 2), MemoryRangeType * 4), IF IsTypeStatic THEN 0 ELSE BIT5))

MemoryRangeSpecificFlags(Cacheable, IsReadWrite, MemoryRangeType, IsTypeStatic) ==
  IF Cacheable > 3 \/ MemoryRangeType > 3 THEN MAX_UINT8
  ELSE ToUint8(BitOr(BitOr(BitOr(IF IsReadWrite THEN BIT0 ELSE 0, Cacheable * 2), MemoryRangeType * 8), IF IsTypeStatic THEN 0 ELSE BIT5))

AddressSpaceGeneralFlags(IsPosDecode, IsMinFixed, IsMaxFixed) ==
  BitOr(BitOr(IF IsPosDecode THEN 0 ELSE BIT1, IF IsMinFixed THEN BIT2 ELSE 0), IF IsMaxFixed THEN BIT3 ELSE 0)

---------------------------------------------------------------------------
(* The AML tree the encoders work on.  Object nodes are named; data nodes  *)
(* are numbered in the order AmlCreateDataNode allocates them.             *)

NULL == 0
NULL_OBJECT == "NULL"

AML_NAME_OP    == 8
AML_SCOPE_OP   == 16
AML_BUFFER_OP  == 17
AML_PACKAGE_OP == 18

\* Name (_CRS, ResourceTemplate () {...}): the owner the encoders expect.
\* The others are owners LinkRdNode must refuse: a Scope, a Name with no
\* second argument, a Name whose value is an integer (a data node) and a
\* Name whose value is a Package.
NameOpOwners == {"CrsName", "EmptyName", "IntName", "PkgName"}
Owners == NameOpOwners \cup {"Scope"}

OpCodeOf(Node) ==
  CASE Node \in NameOpOwners -> AML_NAME_OP
    [] Node = "Scope"        -> AML_SCOPE_OP
    [] Node = "CrsBuffer"    -> AML_BUFFER_OP
    [] Node = "Pkg"          -> AML_PACKAGE_OP
    [] OTHER                 -> NULL

AmlNodeHasOpCode(Node, OpCode) == OpCodeOf(Node) = OpCode

\* The second fixed argument (EAmlParseIndexTerm1) of a node.
AmlGetFixedArgument(Node) ==
  CASE Node = "CrsName" -> "CrsBuffer"
    [] Node = "IntName" -> "IntData"
    [] Node = "PkgName" -> "Pkg"
    [] OTHER            -> NULL_OBJECT

AmlGetNodeType(Node) == IF Node = "IntData" THEN "EAmlNodeData" ELSE "EAmlNodeObject"

---------------------------------------------------------------------------
(* Resource data: headers and structure sizes.                             *)

ACPI_LARGE_ITEM_FLAG == 1
ACPI_SMALL_ITEM_FLAG == 0
ACPI_LARGE_GENERIC_REGISTER_DESCRIPTOR_NAME    == 2
ACPI_LARGE_DWORD_ADDRESS_SPACE_DESCRIPTOR_NAME == 7
ACPI_LARGE_WORD_ADDRESS_SPACE_DESCRIPTOR_NAME  == 8
ACPI_LARGE_EXTENDED_IRQ_DESCRIPTOR_NAME        == 9
ACPI_LARGE_QWORD_ADDRESS_SPACE_DESCRIPTOR_NAME == 10
ACPI_SMALL_END_TAG_DESCRIPTOR_NAME             == 15

ACPI_ADDRESS_SPACE_TYPE_MEM == 0
ACPI_ADDRESS_SPACE_TYPE_IO  == 1
ACPI_ADDRESS_SPACE_TYPE_BUS == 2

EFI_ACPI_6_3_QWORD == 4

\* sizeof (ACPI_LARGE_RESOURCE_HEADER): the tag byte and a UINT16 length.
SIZEOF_LARGE_HEADER == 1 + SIZE_UINT16
\* sizeof (ACPI_SMALL_RESOURCE_HEADER)
SIZEOF_SMALL_HEADER == 1
\* sizeof of an address space descriptor with n-byte fields: the header,
\* ResType, GenFlag, SpecificFlag and five fields.
SizeofAddressSpace(n) == SIZEOF_LARGE_HEADER + 3 + 5 * n
\* sizeof (EFI_ACPI_EXTENDED_INTERRUPT_DESCRIPTOR): the header, the flags, the
\* table length and InterruptNumber[1].
SIZEOF_EXTENDED_INTERRUPT == SIZEOF_LARGE_HEADER + 2 + SIZE_UINT32
\* sizeof (EFI_ACPI_GENERIC_REGISTER_DESCRIPTOR)
SIZEOF_GENERIC_REGISTER == SIZEOF_LARGE_HEADER + 4 + SIZE_UINT64
\* sizeof (EFI_ACPI_END_TAG_DESCRIPTOR): Desc and Checksum.
SIZEOF_END_TAG == 2

\* A UINT16 as the two bytes stored in memory.
Uint16Bytes(x) == <<x % 256, (x \div 256) % 256>>

\* ACPI_LARGE_RESOURCE_HEADER: Bits.Name (7 bits), Bits.Type (1 bit), Length.
LargeHeader(Name, Length) == <<(Name % 128) + (128 * ACPI_LARGE_ITEM_FLAG)>> \o Uint16Bytes(Length)

\* ACPI_SMALL_RESOURCE_HEADER.Byte: Bits.Length (3 bits), Bits.Name (4 bits),
\* Bits.Type (1 bit).
SmallHeaderByte(Name, Length) == (Length % 8) + (8 * (Name % 16)) + (128 * ACPI_SMALL_ITEM_FLAG)

\* Whether a data node's buffer starts with the End Tag descriptor id.
IsEndTag(Buffer) ==
  /\ Len(Buffer) > 0
  /\ Buffer[1] \div 128 = ACPI_SMALL_ITEM_FLAG
  /\ (Buffer[1] \div 8) % 16 = ACPI_SMALL_END_TAG_DESCRIPTOR_NAME

---------------------------------------------------------------------------
(* The primitives of the AML tree library the encoders use.                *)

\* What the environment decides during one call: the status of
\* AmlCreateDataNode, the status of the insertion into the variable list
\* when nothing else makes it fail, the value an uninitialised EFI_STATUS
\* holds, and whether a store outside a local structure hits live memory.
Envs == [create : {EFI_SUCCESS, EFI_OUT_OF_RESOURCES}, insert : {EFI_SUCCESS, EFI_OUT_OF_RESOURCES}, garbage : {EFI_SUCCESS, EFI_INVALID_PARAMETER, EFI_NOT_FOUND}, smash : BOOLEAN]

\* The status of a call after which the program's state is undefined.
STACK_CORRUPTED == "STACK_CORRUPTED"

\* AmlGetNextVariableArgument (Node, NULL): the first variable argument.
AmlGetNextVariableArgument(Node) ==
  IF Node = "CrsBuffer" /\ rdList # <<>> THEN rdList[1] ELSE NULL

\* AmlVarListAddTail: the list with NewNode as its last element.
AmlVarListAddTail(ParentNode, NewNode, fault) ==
  IF EFI_ERROR(fault) THEN [status |-> fault, list |-> rdList]
  ELSE [status |-> EFI_SUCCESS, list |-> Append(rdList, NewNode)]

\* AmlAppendRdNode: NewRdNode becomes the last element before the End Tag.
AmlAppendRdNode(BufferOpNode, NewRdNode, fault) ==
  IF EFI_ERROR(fault) THEN [status |-> fault, list |-> rdList]
  ELSE IF rdList = <<>> \/ ~IsEndTag(heap[rdList[Len(rdList)]])
  THEN [status |-> EFI_INVALID_PARAMETER, list |-> rdList]
  ELSE [status |-> EFI_SUCCESS, list |-> SubSeq(rdList, 1, Len(rdList) - 1) \o <<NewRdNode, rdList[Len(rdList)]>>]

---------------------------------------------------------------------------
(* LinkRdNode.  The result of an encoder is a record: the status returned, *)
(* the node allocated (NULL if none), its buffer, the list and the slot    *)
(* after the call, whether the node was deleted, the number of body bytes  *)
(* stored after the header and the number of bytes stored outside the      *)
(* local descriptor structure.                                             *)

Rejected(Status) ==
  [status |-> Status, RdNode |-> NULL, buffer |-> <<>>, list |-> rdList, slot |-> slot, deleted |-> FALSE, written |-> 0, stray |-> 0]

\* LinkRdNode that returns the status of AmlDeleteTree from error_handler.
LinkRdNode_DeletionStatus(RdNode, ParentNode, NewRdNode, env) ==
  LET Slot1 == IF NewRdNode THEN RdNode ELSE slot
      error_handler(Status) == [status |-> EFI_SUCCESS, list |-> rdList, slot |-> Slot1, deleted |-> TRUE]
  IN
  IF ParentNode # NULL_OBJECT
  THEN IF ~AmlNodeHasOpCode(ParentNode, AML_NAME_OP)
       THEN error_handler(EFI_INVALID_PARAMETER)
       ELSE LET BufferOpNode == AmlGetFixedArgument(ParentNode) IN
            IF \/ BufferOpNode = NULL_OBJECT
               \/ AmlGetNodeType(BufferOpNode) # "EAmlNodeObject"
               \/ ~AmlNodeHasOpCode(BufferOpNode, AML_BUFFER_OP)
            THEN error_handler(EFI_INVALID_PARAMETER)
            ELSE LET r == AmlAppendRdNode(BufferOpNode, RdNode, env.insert) IN
                 IF EFI_ERROR(r.status)
                 THEN error_handler(r.status)
                 ELSE [status |-> r.status, list |-> r.list, slot |-> Slot1, deleted |-> FALSE]
  ELSE \* Status was never assigned.
       [status |-> env.garbage, list |-> rdList, slot |-> Slot1, deleted |-> FALSE]

\* LinkRdNode whose error_handler does not delete the node.
LinkRdNode_NoDelete(RdNode, ParentNode, NewRdNode, env) ==
  LET Slot1 == IF NewRdNode THEN RdNode ELSE slot
      error_handler(Status) == [status |-> Status, list |-> rdList, slot |-> Slot1, deleted |-> FALSE]
  IN
  IF ParentNode # NULL_OBJECT
  THEN IF ~AmlNodeHasOpCode(ParentNode, AML_NAME_OP)
       THEN error_handler(EFI_INVALID_PARAMETER)
       ELSE LET BufferOpNode == AmlGetFixedArgument(ParentNode) IN
            IF \/ BufferOpNode = NULL_OBJECT
               \/ AmlGetNodeType(BufferOpNode) # "EAmlNodeObject"
               \/ ~AmlNodeHasOpCode(BufferOpNode, AML_BUFFER_OP)
            THEN error_handler(EFI_INVALID_PARAMETER)
            ELSE LET r == AmlAppendRdNode(BufferOpNode, RdNode, env.insert) IN
                 IF EFI_ERROR(r.status)
                 THEN error_handler(r.status)
                 ELSE [status |-> r.status, list |-> r.list, slot |-> Slot1, deleted |-> FALSE]
  ELSE \* Status was never assigned.
       [status |-> env.garbage, list |-> rdList, slot |-> Slot1, deleted |-> FALSE]

LinkRdNode(RdNode, ParentNode, NewRdNode, env) ==
  LET Slot1 == IF NewRdNode THEN RdNode ELSE slot
      error_handler(Status) == [status |-> Status, list |-> rdList, slot |-> Slot1, deleted |-> TRUE]
  IN
  IF ParentNode # NULL_OBJECT
  THEN IF ~AmlNodeHasOpCode(ParentNode, AML_NAME_OP)
       THEN error_handler(EFI_INVALID_PARAMETER)
       ELSE LET BufferOpNode == AmlGetFixedArgument(ParentNode) IN
            IF \/ BufferOpNode = NULL_OBJECT
               \/ AmlGetNodeType(BufferOpNode) # "EAmlNodeObject"
               \/ ~AmlNodeHasOpCode(BufferOpNode, AML_BUFFER_OP)
            THEN error_handler(EFI_INVALID_PARAMETER)
            ELSE LET r == AmlAppendRdNode(BufferOpNode, RdNode, env.insert) IN
                 IF EFI_ERROR(r.status)
                 THEN error_handler(r.status)
                 ELSE [status |-> r.status, list |-> r.list, slot |-> Slot1, deleted |-> FALSE]
  ELSE \* Status was never assigned.
       [status |-> env.garbage, list |-> rdList, slot |-> Slot1, deleted |-> FALSE]

\* The end of every descriptor encoder: AmlCreateDataNode copies Size bytes
\* from the local structure, of which Stored is the memory from its first
\* byte on as the encoder wrote it, and LinkRdNode places the node.
CreateAndLink(Stored, Size, HeaderSize, ParentNode, NewRdNode, env) ==
  LET Stray == IF Len(Stored) > Size THEN Len(Stored) - Size ELSE 0 IN
  IF Stray > 0 /\ env.smash
  THEN [Rejected(STACK_CORRUPTED) EXCEPT !.written = Len(Stored) - HeaderSize, !.stray = Stray]
  ELSE IF EFI_ERROR(env.create)
  THEN [Rejected(env.create) EXCEPT !.written = Len(Stored) - HeaderSize, !.stray = Stray]
  ELSE LET link == LinkRdNode(nextNode, ParentNode, NewRdNode, env) IN
       [status |-> link.status, RdNode |-> nextNode, buffer |-> SubSeq(Stored, 1, Size), list |-> link.list, slot |-> link.slot, deleted |-> link.deleted, written |-> Len(Stored) - HeaderSize, stray |-> Stray]

---------------------------------------------------------------------------
(* The address space descriptors.  The arguments of a call are a record a  *)
(* with the parameters' names; NewRdNode is TRUE when the caller passes    *)
(* the address of its variable and FALSE when it passes NULL.              *)

NULL_STRING == "NULL"

\* The address space descriptor made whatever ResourceSourceIndex is.
AddressSpaceDescriptor_AnyIndex(n, Name, ResourceType, a, TypeSpecificFlags, NameOpNode, NewRdNode, env) ==
  IF \/ TypeSpecificFlags = MAX_UINT8
     \/ a.ResourceSource # NULL_STRING
     \/ (NameOpNode = NULL_OBJECT /\ ~NewRdNode)
  THEN Rejected(EFI_INVALID_PARAMETER)
  ELSE LET Status == CheckAddressSpaceFields(a.IsMinFixed, a.IsMaxFixed, ZeroExtend(a.AddressGranularity, SIZE_UINT64), ZeroExtend(a.AddressMinimum, SIZE_UINT64), ZeroExtend(a.AddressMaximum, SIZE_UINT64), ZeroExtend(a.AddressTranslation, SIZE_UINT64), ZeroExtend(a.RangeLength, SIZE_UINT64))
       IN
       IF EFI_ERROR(Status) THEN Rejected(Status)
       ELSE LET Header == LargeHeader(Name, SizeofAddressSpace(n) - SIZEOF_LARGE_HEADER)
                Body   == <<ResourceType, AddressSpaceGeneralFlags(a.IsPosDecode, a.IsMinFixed, a.IsMaxFixed), TypeSpecificFlags>> \o a.AddressGranularity \o a.AddressMinimum \o a.AddressMaximum \o a.AddressTranslation \o a.RangeLength
            IN CreateAndLink(Header \o Body, SizeofAddressSpace(n), SIZEOF_LARGE_HEADER, NameOpNode, NewRdNode, env)

\* The address space descriptor with IsResourceConsumer in bit 0 of the
\* general flags.
AddressSpaceDescriptor_ConsumerBit(n, Name, ResourceType, a, TypeSpecificFlags, NameOpNode, NewRdNode, env) ==
  IF \/ TypeSpecificFlags = MAX_UINT8
     \/ a.ResourceSourceIndex # 0
     \/ a.ResourceSource # NULL_STRING
     \/ (NameOpNode = NULL_OBJECT /\ ~NewRdNode)
  THEN Rejected(EFI_INVALID_PARAMETER)
  ELSE LET Status == CheckAddressSpaceFields(a.IsMinFixed, a.IsMaxFixed, ZeroExtend(a.AddressGranularity, SIZE_UINT64), ZeroExtend(a.AddressMinimum, SIZE_UINT64), ZeroExtend(a.AddressMaximum, SIZE_UINT64), ZeroExtend(a.AddressTranslation, SIZE_UINT64), ZeroExtend(a.RangeLength, SIZE_UINT64))
       IN
       IF EFI_ERROR(Status) THEN Rejected(Status)
       ELSE LET Header == LargeHeader(Name, SizeofAddressSpace(n) - SIZEOF_LARGE_HEADER)
                Body   == <<ResourceType, BitOr(AddressSpaceGeneralFlags(a.IsPosDecode, a.IsMinFixed, a.IsMaxFixed), IF a.IsResourceConsumer THEN BIT0 ELSE 0), TypeSpecificFlags>> \o a.AddressGranularity \o a.AddressMinimum \o a.AddressMaximum \o a.AddressTranslation \o a.RangeLength
            IN CreateAndLink(Header \o Body, SizeofAddressSpace(n), SIZEOF_LARGE_HEADER, NameOpNode, NewRdNode, env)

\* The common text of AmlCodeGenRdWordSpace, AmlCodeGenRdDWordSpace and
\* AmlCodeGenRdQWordSpace, whose fields are n bytes wide.
AddressSpaceDescriptor(n, Name, ResourceType, a, TypeSpecificFlags, NameOpNode, NewRdNode, env) ==
  IF \/ TypeSpecificFlags = MAX_UINT8
     \/ a.ResourceSourceIndex # 0
     \/ a.ResourceSource # NULL_STRING
     \/ (NameOpNode = NULL_OBJECT /\ ~NewRdNode)
  THEN Rejected(EFI_INVALID_PARAMETER)
  ELSE LET Status == CheckAddressSpaceFields(a.IsMinFixed, a.IsMaxFixed, ZeroExtend(a.AddressGranularity, SIZE_UINT64), ZeroExtend(a.AddressMinimum, SIZE_UINT64), ZeroExtend(a.AddressMaximum, SIZE_UINT64), ZeroExtend(a.AddressTranslation, SIZE_UINT64), ZeroExtend(a.RangeLength, SIZE_UINT64))
       IN
       IF EFI_ERROR(Status) THEN Rejected(Status)
       ELSE LET Header == LargeHeader(Name, SizeofAddressSpace(n) - SIZEOF_LARGE_HEADER)
                Body   == <<ResourceType, AddressSpaceGeneralFlags(a.IsPosDecode, a.IsMinFixed, a.IsMaxFixed), TypeSpecificFlags>> \o a.AddressGranularity \o a.AddressMinimum \o a.AddressMaximum \o a.AddressTranslation \o a.RangeLength
            IN CreateAndLink(Header \o Body, SizeofAddressSpace(n), SIZEOF_LARGE_HEADER, NameOpNode, NewRdNode, env)

AmlCodeGenRdDWordSpace(ResourceType, a, TypeSpecificFlags, NameOpNode, NewRdNode, env) ==
  AddressSpaceDescriptor(SIZE_UINT32, ACPI_LARGE_DWORD_ADDRESS_SPACE_DESCRIPTOR_NAME, ResourceType, a, TypeSpecificFlags, NameOpNode, NewRdNode, env)

AmlCodeGenRdWordSpace(ResourceType, a, TypeSpecificFlags, NameOpNode, NewRdNode, env) ==
  AddressSpaceDescriptor(SIZE_UINT16, ACPI_LARGE_WORD_ADDRESS_SPACE_DESCRIPTOR_NAME, ResourceType, a, TypeSpecificFlags, NameOpNode, NewRdNode, env)

AmlCodeGenRdQWordSpace(ResourceType, a, TypeSpecificFlags, NameOpNode, NewRdNode, env) ==
  AddressSpaceDescriptor(SIZE_UINT64, ACPI_LARGE_QWORD_ADDRESS_SPACE_DESCRIPTOR_NAME, ResourceType, a, TypeSpecificFlags, NameOpNode, NewRdNode, env)

AmlCodeGenRdDWordIo(a, NameOpNode, NewRdNode, env) ==
  AmlCodeGenRdDWordSpace(ACPI_ADDRESS_SPACE_TYPE_IO, a, RdIoRangeSpecificFlags(a.IsaRanges, a.IsDenseTranslation, a.IsTypeStatic), NameOpNode, NewRdNode, env)

AmlCodeGenRdDWordMemory(a, NameOpNode, NewRdNode, env) ==
  AmlCodeGenRdDWordSpace(ACPI_ADDRESS_SPACE_TYPE_MEM, a, MemoryRangeSpecificFlags(a.Cacheable, a.IsReadWrite, a.MemoryRangeType, a.IsTypeStatic), NameOpNode, NewRdNode, env)

\* The UINT32 arguments become the UINT16 parameters of AmlCodeGenRdWordSpace.
AmlCodeGenRdWordBusNumber(a, NameOpNode, NewRdNode, env) ==
  AmlCodeGenRdWordSpace(ACPI_ADDRESS_SPACE_TYPE_BUS, [a EXCEPT !.AddressGranularity = Truncate(@, SIZE_UINT16), !.AddressMinimum = Truncate(@, SIZE_UINT16), !.AddressMaximum = Truncate(@, SIZE_UINT16), !.AddressTranslation = Truncate(@, SIZE_UINT16), !.RangeLength = Truncate(@, SIZE_UINT16)], 0, NameOpNode, NewRdNode, env)

AmlCodeGenRdQWordMemory(a, NameOpNode, NewRdNode, env) ==
  AmlCodeGenRdQWordSpace(ACPI_ADDRESS_SPACE_TYPE_MEM, a, MemoryRangeSpecificFlags(a.Cacheable, a.IsReadWrite, a.MemoryRangeType, a.IsTypeStatic), NameOpNode, NewRdNode, env)

---------------------------------------------------------------------------
(* The extended interrupt, the generic register and the End Tag.           *)

\* A NULL IrqList.
NULL_LIST == <<>>

RECURSIVE Flatten(_)
Flatten(list) == IF list = <<>> THEN <<>> ELSE Head(list) \o Flatten(Tail(list))

\* RdInterrupt is a local EFI_ACPI_EXTENDED_INTERRUPT_DESCRIPTOR, which has
\* room for one interrupt number.  CopyMem stores 4 * IrqCount bytes from
\* the address of InterruptNumber on.
AmlCodeGenRdInterrupt(a, NameOpNode, NewRdNode, env) ==
  IF \/ a.IrqList = NULL_LIST
     \/ a.IrqCount = 0
     \/ (NameOpNode = NULL_OBJECT /\ ~NewRdNode)
  THEN Rejected(EFI_INVALID_PARAMETER)
  ELSE LET Header == LargeHeader(ACPI_LARGE_EXTENDED_IRQ_DESCRIPTOR_NAME, SIZEOF_EXTENDED_INTERRUPT - SIZEOF_LARGE_HEADER)
           InterruptVectorFlags == BitOr(BitOr(BitOr(IF a.ResourceConsumer THEN BIT0 ELSE 0, IF a.EdgeTriggered THEN BIT1 ELSE 0), IF a.ActiveLow THEN BIT2 ELSE 0), IF a.Shared THEN BIT3 ELSE 0)
           Copied == Flatten(SubSeq(a.IrqList, 1, a.IrqCount))
       IN CreateAndLink(Header \o <<InterruptVectorFlags, a.IrqCount>> \o Copied, SIZEOF_EXTENDED_INTERRUPT, SIZEOF_LARGE_HEADER, NameOpNode, NewRdNode, env)

AmlCodeGenRdRegister(a, NameOpNode, NewRdNode, env) ==
  IF \/ a.AccessSize > EFI_ACPI_6_3_QWORD
     \/ (NameOpNode = NULL_OBJECT /\ ~NewRdNode)
  THEN Rejected(EFI_INVALID_PARAMETER)
  ELSE LET Header == LargeHeader(ACPI_LARGE_GENERIC_REGISTER_DESCRIPTOR_NAME, SIZEOF_GENERIC_REGISTER - SIZEOF_LARGE_HEADER)
       IN CreateAndLink(Header \o <<a.AddressSpace, a.BitWidth, a.BitOffset, a.AccessSize>> \o a.Address, SIZEOF_GENERIC_REGISTER, SIZEOF_LARGE_HEADER, NameOpNode, NewRdNode, env)

\* AmlCodeGenEndTag without the test that the parent has no element yet.
AmlCodeGenEndTag_NoCheck(a, ParentNode, NewRdNode, env) ==
  IF ParentNode = NULL_OBJECT /\ ~NewRdNode
  THEN Rejected(EFI_INVALID_PARAMETER)
  ELSE LET EndTag == <<SmallHeaderByte(ACPI_SMALL_END_TAG_DESCRIPTOR_NAME, SIZEOF_END_TAG - SIZEOF_SMALL_HEADER), a.CheckSum>>
           Written == SIZEOF_END_TAG - SIZEOF_SMALL_HEADER
       IN
       IF EFI_ERROR(env.create)
       THEN [Rejected(env.create) EXCEPT !.written = Written]
       ELSE LET RdNode == nextNode
                Slot1  == IF NewRdNode THEN RdNode ELSE slot
                Done(Status, List, Deleted) == [status |-> Status, RdNode |-> RdNode, buffer |-> EndTag, list |-> List, slot |-> Slot1, deleted |-> Deleted, written |-> Written, stray |-> 0]
            IN
            IF ParentNode # NULL_OBJECT
            THEN IF FALSE
                 THEN Done(EFI_INVALID_PARAMETER, rdList, TRUE)
                 ELSE LET t == AmlVarListAddTail(ParentNode, RdNode, env.insert) IN
                      IF EFI_ERROR(t.status)
                      THEN Done(t.status, rdList, TRUE)
                      ELSE Done(t.status, t.list, FALSE)
            ELSE Done(env.create, rdList, FALSE)

\* AmlCodeGenEndTag replacing the elements of a parent that has some.
AmlCodeGenEndTag_Replace(a, ParentNode, NewRdNode, env) ==
  IF ParentNode = NULL_OBJECT /\ ~NewRdNode
  THEN Rejected(EFI_INVALID_PARAMETER)
  ELSE LET EndTag == <<SmallHeaderByte(ACPI_SMALL_END_TAG_DESCRIPTOR_NAME, SIZEOF_END_TAG - SIZEOF_SMALL_HEADER), a.CheckSum>>
           Written == SIZEOF_END_TAG - SIZEOF_SMALL_HEADER
       IN
       IF EFI_ERROR(env.create)
       THEN [Rejected(env.create) EXCEPT !.written = Written]
       ELSE LET RdNode == nextNode
                Slot1  == IF NewRdNode THEN RdNode ELSE slot
                Done(Status, List, Deleted) == [status |-> Status, RdNode |-> RdNode, buffer |-> EndTag, list |-> List, slot |-> Slot1, deleted |-> Deleted, written |-> Written, stray |-> 0]
            IN
            IF ParentNode # NULL_OBJECT
            THEN IF AmlGetNextVariableArgument(ParentNode) # NULL
                 THEN Done(EFI_SUCCESS, <<RdNode>>, FALSE)
                 ELSE LET t == AmlVarListAddTail(ParentNode, RdNode, env.insert) IN
                      IF EFI_ERROR(t.status)
                      THEN Done(t.status, rdList, TRUE)
                      ELSE Done(t.status, t.list, FALSE)
            ELSE Done(env.create, rdList, FALSE)

\* ParentNode is the object that holds the resource data elements.
AmlCodeGenEndTag(a, ParentNode, NewRdNode, env) ==
  IF ParentNode = NULL_OBJECT /\ ~NewRdNode
  THEN Rejected(EFI_INVALID_PARAMETER)
  ELSE LET EndTag == <<SmallHeaderByte(ACPI_SMALL_END_TAG_DESCRIPTOR_NAME, SIZEOF_END_TAG - SIZEOF_SMALL_HEADER), a.CheckSum>>
           Written == SIZEOF_END_TAG - SIZEOF_SMALL_HEADER
       IN
       IF EFI_ERROR(env.create)
       THEN [Rejected(env.create) EXCEPT !.written = Written]
       ELSE LET RdNode == nextNode
                Slot1  == IF NewRdNode THEN RdNode ELSE slot
                Done(Status, List, Deleted) == [status |-> Status, RdNode |-> RdNode, buffer |-> EndTag, list |-> List, slot |-> Slot1, deleted |-> Deleted, written |-> Written, stray |-> 0]
            IN
            IF ParentNode # NULL_OBJECT
            THEN IF AmlGetNextVariableArgument(ParentNode) # NULL
                 THEN Done(EFI_INVALID_PARAMETER, rdList, TRUE)
                 ELSE LET t == AmlVarListAddTail(ParentNode, RdNode, env.insert) IN
                      IF EFI_ERROR(t.status)
                      THEN Done(t.status, rdList, TRUE)
                      ELSE Done(t.status, t.list, FALSE)
            ELSE Done(env.create, rdList, FALSE)

---------------------------------------------------------------------------
(* The SSDT Cpu topology generator.  ASSERT is as in a build where it      *)
(* evaluates nothing.                                                      *)

CM_NULL_TOKEN == 0

\* SsdtCpuTopologyGenerator.h: the names Xxxx hold three hexadecimal digits.
MAX_INDEX_NAME == 4096
AML_NAME_SEG_SIZE == 4

\* The bits of CM_ARM_PROC_HIERARCHY_INFO.Flags that are checked: physical
\* package (bit 0), processor id valid (bit 1), node is a leaf (bit 3).
EFI_ACPI_6_3_PPTT_PACKAGE_PHYSICAL == 1
PPTT_PROCESSOR_MASK == 11
PPTT_CPU_PROCESSOR_MASK == 10
PPTT_CLUSTER_PROCESSOR_MASK == 0

ACPI_HID_PROCESSOR_DEVICE == "ACPI0007"
ACPI_HID_PROCESSOR_CONTAINER_DEVICE == "ACPI0010"
SB_SCOPE_PREFIX == <<"\\", "_", "S", "B", ".">>

\* The services of the AML library and of the Configuration Manager that a
\* pass calls.  In a platform c, the service c.fault returns an error every
\* time it is called and the other services do what they are asked.
Services ==
  {"AmlCodeGenDefinitionBlock", "AmlCodeGenScope", "GetEArmObjProcHierarchyInfo", "AllocateZeroPool", "GetEArmObjGicCInfo", "AmlCodeGenDevice", "AmlCodeGenNameInteger", "AmlCodeGenNameString", "AmlCodeGenMethodRetNameString", "AmlCreateLpiNode", "GetEArmObjCmRef", "GetEArmObjLpiInfo", "AmlAddLpiState", "AmlSerializeDefinitionBlock"}

Service(c, fn) == IF c.fault = fn THEN EFI_OUT_OF_RESOURCES ELSE EFI_SUCCESS

\* AsciiFromHex: the upper case digit of a value below 16.
AsciiFromHex(x) ==
  <<"0", "1", "2", "3", "4", "5", "6", "7", "8", "9", "A", "B", "C", "D", "E", "F">>[x + 1]

\* WriteAslName with the digits stored from the least significant on.
WriteAslName_Reversed(LeadChar, Value) ==
  IF Value >= MAX_INDEX_NAME
  THEN [Status |-> EFI_INVALID_PARAMETER, AslName |-> <<>>]
  ELSE [Status |-> EFI_SUCCESS, AslName |-> <<LeadChar>> \o [k \in 1..(AML_NAME_SEG_SIZE - 1) |-> AsciiFromHex((Value \div (16 ^ (k - 1))) % 16)]]

\* WriteAslName: the status and the four characters written before the NUL.
WriteAslName(LeadChar, Value) ==
  IF Value >= MAX_INDEX_NAME
  THEN [Status |-> EFI_INVALID_PARAMETER, AslName |-> <<>>]
  ELSE [Status |-> EFI_SUCCESS, AslName |-> <<LeadChar>> \o [k \in 1..(AML_NAME_SEG_SIZE - 1) |-> AsciiFromHex((Value \div (16 ^ (AML_NAME_SEG_SIZE - 1 - k))) % 16)]]

---------------------------------------------------------------------------
(* The token table.  g is the generator: TokenTable.Table is the pool the  *)
(* table is in (NULL before the first pass), pools[p] is the array of pool *)
(* p with the slots written past its end and whether it was freed.         *)

TokenTableInitialize(c, g, Count) ==
  IF Count = 0 \/ Count >= MAX_INDEX_NAME
  THEN [Status |-> EFI_INVALID_PARAMETER, gen |-> g]
  ELSE IF EFI_ERROR(Service(c, "AllocateZeroPool"))
  THEN [Status |-> EFI_OUT_OF_RESOURCES, gen |-> g]
  ELSE [Status |-> EFI_SUCCESS, gen |-> [g EXCEPT !.pools = Append(@, [slots |-> [i \in 1..Count |-> CM_NULL_TOKEN], past |-> <<>>, frees |-> 0]), !.TokenTable.Table = Len(g.pools) + 1]]

TokenTableFree(g) ==
  IF g.TokenTable.Table # NULL
  THEN [g EXCEPT !.pools[g.TokenTable.Table].frees = @ + 1]
  ELSE g

\* Slot Index of the table (from 0).  Past the end of the array it is what
\* this pass stored there, else whatever that memory holds (Junk).
TableSlot(g, Index, Junk) ==
  LET pool == g.pools[g.TokenTable.Table] IN
  IF Index < Len(pool.slots) THEN pool.slots[Index + 1]
  ELSE IF Index - Len(pool.slots) < Len(pool.past) THEN pool.past[Index - Len(pool.slots) + 1]
  ELSE Junk

\* TokenTableAdd that does not look for the token in the table.
TokenTableAdd_NoSearch(g, Token, Junk) ==
  LET LastIndex == g.TokenTable.LastIndex
      pool  == g.pools[g.TokenTable.Table]
      Found == {Index \in {} : TableSlot(g, Index, Junk) = Token}
  IN
  IF Found # {}
  THEN [Index |-> CHOOSE Index \in Found : \A Other \in Found : Index <= Other, gen |-> g, overrun |-> FALSE]
  ELSE IF LastIndex < Len(pool.slots)
  THEN [Index |-> LastIndex, gen |-> [g EXCEPT !.pools[g.TokenTable.Table].slots[LastIndex + 1] = Token, !.TokenTable.LastIndex = @ + 1], overrun |-> FALSE]
  ELSE [Index |-> LastIndex, gen |-> [g EXCEPT !.pools[g.TokenTable.Table].past = [i \in 1..(LastIndex - Len(pool.slots) + 1) |-> IF i <= Len(pool.past) THEN pool.past[i] ELSE IF i = LastIndex - Len(pool.slots) + 1 THEN Token ELSE Junk], !.TokenTable.LastIndex = @ + 1], overrun |-> TRUE]

\* TokenTableAdd: the index returned, the generator afterwards and whether
\* the token was stored past the end of the array.
TokenTableAdd(g, Token, Junk) ==
  LET LastIndex == g.TokenTable.LastIndex
      pool  == g.pools[g.TokenTable.Table]
      Found == {Index \in 0..(LastIndex - 1) : TableSlot(g, Index, Junk) = Token}
  IN
  IF Found # {}
  THEN [Index |-> CHOOSE Index \in Found : \A Other \in Found : Index <= Other, gen |-> g, overrun |-> FALSE]
  ELSE IF LastIndex < Len(pool.slots)
  THEN [Index |-> LastIndex, gen |-> [g EXCEPT !.pools[g.TokenTable.Table].slots[LastIndex + 1] = Token, !.TokenTable.LastIndex = @ + 1], overrun |-> FALSE]
  ELSE [Index |-> LastIndex, gen |-> [g EXCEPT !.pools[g.TokenTable.Table].past = [i \in 1..(LastIndex - Len(pool.slots) + 1) |-> IF i <= Len(pool.past) THEN pool.past[i] ELSE IF i = LastIndex - Len(pool.slots) + 1 THEN Token ELSE Junk], !.TokenTable.LastIndex = @ + 1], overrun |-> TRUE]

---------------------------------------------------------------------------
(* WriteAslName called on its own: unit.calls holds the calls made, each   *)
(* with its arguments and what it returned.                                *)

NoUnit == [fn |-> "none", calls |-> <<>>, gen |-> NULL]

\* The most names written, the largest value of the first name, and the
\* values of the names that follow it.
MaxNames == 2
MaxValue == 4100
LeadChars == {"C", "L"}
NextValues == {0, 255, 4095, 4096}

WriteAslNameCall(LeadChar, Value) ==
  /\ unit.fn \in {"none", "WriteAslName"}
  /\ Len(unit.calls) < MaxNames
  /\ unit' = [fn |-> "WriteAslName", calls |-> Append(unit.calls, [LeadChar |-> LeadChar, Value |-> Value, r |-> WriteAslName(LeadChar, Value)]), gen |-> NULL]
  /\ UNCHANGED <<chk, rdVars, topoVars>>

NextName ==
  \E LeadChar \in LeadChars : \E Value \in (IF unit.calls = <<>> THEN 0..MaxValue ELSE NextValues) : WriteAslNameCall(LeadChar, Value)

---------------------------------------------------------------------------
(* The flag composers called on their own: unit.calls holds the calls made *)
(* of one of them, each with its arguments and the byte returned.          *)

\* The most calls made, and the largest range class, cacheability and
\* range type below the largest UINT8, which is given too.
MaxFlagCalls == 2
MaxClass == 5
Classes == 0..MaxClass \cup {MAX_UINT8}

RdIoRangeSpecificFlagsCall(IsaRanges, IsDenseTranslation, IsTypeStatic) ==
  /\ unit.fn \in {"none", "RdIoRangeSpecificFlags"}
  /\ Len(unit.calls) < MaxFlagCalls
  /\ unit' = [fn |-> "RdIoRangeSpecificFlags", calls |-> Append(unit.calls, [IsaRanges |-> IsaRanges, IsDenseTranslation |-> IsDenseTranslation, IsTypeStatic |-> IsTypeStatic, r |-> RdIoRangeSpecificFlags(IsaRanges, IsDenseTranslation, IsTypeStatic)]), gen |-> NULL]
  /\ UNCHANGED <<chk, rdVars, topoVars>>

MemoryRangeSpecificFlagsCall(Cacheable, IsReadWrite, MemoryRangeType, IsTypeStatic) ==
  /\ unit.fn \in {"none", "MemoryRangeSpecificFlags"}
  /\ Len(unit.calls) < MaxFlagCalls
  /\ unit' = [fn |-> "MemoryRangeSpecificFlags", calls |-> Append(unit.calls, [Cacheable |-> Cacheable, IsReadWrite |-> IsReadWrite, MemoryRangeType |-> MemoryRangeType, IsTypeStatic |-> IsTypeStatic, r |-> MemoryRangeSpecificFlags(Cacheable, IsReadWrite, MemoryRangeType, IsTypeStatic)]), gen |-> NULL]
  /\ UNCHANGED <<chk, rdVars, topoVars>>

NextFlags ==
  \/ \E IsaRanges \in Classes, IsDenseTranslation \in BOOLEAN, IsTypeStatic \in BOOLEAN : RdIoRangeSpecificFlagsCall(IsaRanges, IsDenseTranslation, IsTypeStatic)
  \/ \E Cacheable \in Classes, IsReadWrite \in BOOLEAN, MemoryRangeType \in Classes, IsTypeStatic \in BOOLEAN : MemoryRangeSpecificFlagsCall(Cacheable, IsReadWrite, MemoryRangeType, IsTypeStatic)

---------------------------------------------------------------------------
(* The devices.  The nodes of the definition block are numbered in the     *)
(* order of their creation; node 0 is the \_SB scope.                      *)

SB_SCOPE_NODE == 0
NO_UID == -1

\* Record is the place in ProcNodeList of the record that
\* CreateAmlCpuTopologyTree made the device for (0 when there is none); no
\* operation reads it.
Device(AslName, ParentNode) ==
  [Type |-> "Device", Name |-> AslName, Parent |-> ParentNode, Uid |-> NO_UID, Hid |-> "", Lpi |-> <<>>, States |-> <<>>, Record |-> 0]

\* GetEArmObjGicCInfo for a token: the status and the object.
GetEArmObjGicCInfo(c, Token) ==
  LET Objects == {i \in 1..Len(c.GicC) : c.GicC[i].Token = Token} IN
  IF EFI_ERROR(Service(c, "GetEArmObjGicCInfo")) THEN [Status |-> Service(c, "GetEArmObjGicCInfo"), GicCInfo |-> NULL]
  ELSE IF Objects = {} THEN [Status |-> EFI_NOT_FOUND, GicCInfo |-> NULL]
  ELSE [Status |-> EFI_SUCCESS, GicCInfo |-> c.GicC[CHOOSE i \in Objects : TRUE]]

CreateAmlCpu(c, nodes, ParentNode, GicCInfo, CpuIndex) ==
  LET Name    == WriteAslName("C", CpuIndex)
      CpuNode == Len(nodes) + 1
      Created == Append(nodes, Device(Name.AslName, ParentNode))
      WithUid == [Created EXCEPT ![CpuNode].Uid = GicCInfo.AcpiProcessorUid]
  IN
  IF EFI_ERROR(Name.Status) THEN [Status |-> Name.Status, nodes |-> nodes, CpuNode |-> NULL]
  ELSE IF EFI_ERROR(Service(c, "AmlCodeGenDevice")) THEN [Status |-> Service(c, "AmlCodeGenDevice"), nodes |-> nodes, CpuNode |-> NULL]
  ELSE IF EFI_ERROR(Service(c, "AmlCodeGenNameInteger")) THEN [Status |-> Service(c, "AmlCodeGenNameInteger"), nodes |-> Created, CpuNode |-> NULL]
  ELSE IF EFI_ERROR(Service(c, "AmlCodeGenNameString")) THEN [Status |-> Service(c, "AmlCodeGenNameString"), nodes |-> WithUid, CpuNode |-> NULL]
  ELSE [Status |-> EFI_SUCCESS, nodes |-> [WithUid EXCEPT ![CpuNode].Hid = ACPI_HID_PROCESSOR_DEVICE], CpuNode |-> CpuNode]

\* CreateAmlLpiMethod that names the first package whatever the token is.
CreateAmlLpiMethod_FirstName(c, g, nodes, ProcHierarchyNodeInfo, Node, Junk) ==
  LET Added == TokenTableAdd(g, ProcHierarchyNodeInfo.LpiToken, Junk)
      Name  == WriteAslName("L", 0)
  IN
  IF EFI_ERROR(Name.Status) THEN [Status |-> Name.Status, gen |-> Added.gen, nodes |-> nodes, overrun |-> Added.overrun]
  ELSE IF EFI_ERROR(Service(c, "AmlCodeGenMethodRetNameString")) THEN [Status |-> Service(c, "AmlCodeGenMethodRetNameString"), gen |-> Added.gen, nodes |-> nodes, overrun |-> Added.overrun]
  ELSE [Status |-> EFI_SUCCESS, gen |-> Added.gen, nodes |-> [nodes EXCEPT ![Node].Lpi = SB_SCOPE_PREFIX \o Name.AslName], overrun |-> Added.overrun]

CreateAmlLpiMethod(c, g, nodes, ProcHierarchyNodeInfo, Node, Junk) ==
  LET Added == TokenTableAdd(g, ProcHierarchyNodeInfo.LpiToken, Junk)
      Name  == WriteAslName("L", Added.Index)
  IN
  IF EFI_ERROR(Name.Status) THEN [Status |-> Name.Status, gen |-> Added.gen, nodes |-> nodes, overrun |-> Added.overrun]
  ELSE IF EFI_ERROR(Service(c, "AmlCodeGenMethodRetNameString")) THEN [Status |-> Service(c, "AmlCodeGenMethodRetNameString"), gen |-> Added.gen, nodes |-> nodes, overrun |-> Added.overrun]
  ELSE [Status |-> EFI_SUCCESS, gen |-> Added.gen, nodes |-> [nodes EXCEPT ![Node].Lpi = SB_SCOPE_PREFIX \o Name.AslName], overrun |-> Added.overrun]

\* CreateAmlCpuFromProcHierarchy that names the Cpu by the token of its record.
CreateAmlCpuFromProcHierarchy_NameByToken(c, g, nodes, ParentNode, CpuIndex, ProcHierarchyNodeInfo, Junk) ==
  LET Info == GetEArmObjGicCInfo(c, ProcHierarchyNodeInfo.GicCToken)
      Cpu  == CreateAmlCpu(c, nodes, ParentNode, Info.GicCInfo, ProcHierarchyNodeInfo.Token)
  IN
  IF EFI_ERROR(Info.Status) THEN [Status |-> Info.Status, gen |-> g, nodes |-> nodes, overrun |-> FALSE]
  ELSE IF EFI_ERROR(Cpu.Status) THEN [Status |-> Cpu.Status, gen |-> g, nodes |-> Cpu.nodes, overrun |-> FALSE]
  ELSE IF ProcHierarchyNodeInfo.LpiToken # CM_NULL_TOKEN
  THEN CreateAmlLpiMethod(c, g, Cpu.nodes, ProcHierarchyNodeInfo, Cpu.CpuNode, Junk)
  ELSE [Status |-> Cpu.Status, gen |-> g, nodes |-> Cpu.nodes, overrun |-> FALSE]

CreateAmlCpuFromProcHierarchy(c, g, nodes, ParentNode, CpuIndex, ProcHierarchyNodeInfo, Junk) ==
  LET Info == GetEArmObjGicCInfo(c, ProcHierarchyNodeInfo.GicCToken)
      Cpu  == CreateAmlCpu(c, nodes, ParentNode, Info.GicCInfo, CpuIndex)
  IN
  IF EFI_ERROR(Info.Status) THEN [Status |-> Info.Status, gen |-> g, nodes |-> nodes, overrun |-> FALSE]
  ELSE IF EFI_ERROR(Cpu.Status) THEN [Status |-> Cpu.Status, gen |-> g, nodes |-> Cpu.nodes, overrun |-> FALSE]
  ELSE IF ProcHierarchyNodeInfo.LpiToken # CM_NULL_TOKEN
  THEN CreateAmlLpiMethod(c, g, Cpu.nodes, ProcHierarchyNodeInfo, Cpu.CpuNode, Junk)
  ELSE [Status |-> Cpu.Status, gen |-> g, nodes |-> Cpu.nodes, overrun |-> FALSE]

\* CreateAmlCluster that gives the token of the record as _UID.
CreateAmlCluster_UidOfToken(c, g, nodes, ParentNode, ProcHierarchyNodeInfo, ClusterIndex, Junk) ==
  LET Name        == WriteAslName("C", ClusterIndex)
      ClusterNode == Len(nodes) + 1
      Created     == Append(nodes, Device(Name.AslName, ParentNode))
      WithUid     == [Created EXCEPT ![ClusterNode].Uid = ProcHierarchyNodeInfo.Token]
      WithHid     == [WithUid EXCEPT ![ClusterNode].Hid = ACPI_HID_PROCESSOR_CONTAINER_DEVICE]
      Lpi         == CreateAmlLpiMethod(c, g, WithHid, ProcHierarchyNodeInfo, ClusterNode, Junk)
      Failed(Status, Nodes) == [Status |-> Status, gen |-> g, nodes |-> Nodes, ClusterNode |-> NULL, overrun |-> FALSE]
  IN
  IF EFI_ERROR(Name.Status) THEN Failed(Name.Status, nodes)
  ELSE IF EFI_ERROR(Service(c, "AmlCodeGenDevice")) THEN Failed(Service(c, "AmlCodeGenDevice"), nodes)
  ELSE IF EFI_ERROR(Service(c, "AmlCodeGenNameInteger")) THEN Failed(Service(c, "AmlCodeGenNameInteger"), Created)
  ELSE IF EFI_ERROR(Service(c, "AmlCodeGenNameString")) THEN Failed(Service(c, "AmlCodeGenNameString"), WithUid)
  ELSE IF ProcHierarchyNodeInfo.LpiToken # CM_NULL_TOKEN
  THEN IF EFI_ERROR(Lpi.Status)
       THEN [Status |-> Lpi.Status, gen |-> Lpi.gen, nodes |-> Lpi.nodes, ClusterNode |-> NULL, overrun |-> Lpi.overrun]
       ELSE [Status |-> Lpi.Status, gen |-> Lpi.gen, nodes |-> Lpi.nodes, ClusterNode |-> ClusterNode, overrun |-> Lpi.overrun]
  ELSE [Status |-> EFI_SUCCESS, gen |-> g, nodes |-> WithHid, ClusterNode |-> ClusterNode, overrun |-> FALSE]

CreateAmlCluster(c, g, nodes, ParentNode, ProcHierarchyNodeInfo, ClusterIndex, Junk) ==
  LET Name        == WriteAslName("C", ClusterIndex)
      ClusterNode == Len(nodes) + 1
      Created     == Append(nodes, Device(Name.AslName, ParentNode))
      WithUid     == [Created EXCEPT ![ClusterNode].Uid = ClusterIndex]
      WithHid     == [WithUid EXCEPT ![ClusterNode].Hid = ACPI_HID_PROCESSOR_CONTAINER_DEVICE]
      Lpi         == CreateAmlLpiMethod(c, g, WithHid, ProcHierarchyNodeInfo, ClusterNode, Junk)
      Failed(Status, Nodes) == [Status |-> Status, gen |-> g, nodes |-> Nodes, ClusterNode |-> NULL, overrun |-> FALSE]
  IN
  IF EFI_ERROR(Name.Status) THEN Failed(Name.Status, nodes)
  ELSE IF EFI_ERROR(Service(c, "AmlCodeGenDevice")) THEN Failed(Service(c, "AmlCodeGenDevice"), nodes)
  ELSE IF EFI_ERROR(Service(c, "AmlCodeGenNameInteger")) THEN Failed(Service(c, "AmlCodeGenNameInteger"), Created)
  ELSE IF EFI_ERROR(Service(c, "AmlCodeGenNameString")) THEN Failed(Service(c, "AmlCodeGenNameString"), WithUid)
  ELSE IF ProcHierarchyNodeInfo.LpiToken # CM_NULL_TOKEN
  THEN IF EFI_ERROR(Lpi.Status)
       THEN [Status |-> Lpi.Status, gen |-> Lpi.gen, nodes |-> Lpi.nodes, ClusterNode |-> NULL, overrun |-> Lpi.overrun]
       ELSE [Status |-> Lpi.Status, gen |-> Lpi.gen, nodes |-> Lpi.nodes, ClusterNode |-> ClusterNode, overrun |-> Lpi.overrun]
  ELSE [Status |-> EFI_SUCCESS, gen |-> g, nodes |-> WithHid, ClusterNode |-> ClusterNode, overrun |-> FALSE]

\* CreateTopologyFromGicC: one Cpu under the scope for each CM_ARM_GICC_INFO.
RECURSIVE GicCLoop(_, _, _)
GicCLoop(c, nodes, Index) ==
  IF Index >= Len(c.GicC) THEN [Status |-> EFI_SUCCESS, nodes |-> nodes]
  ELSE LET Cpu == CreateAmlCpu(c, nodes, SB_SCOPE_NODE, c.GicC[Index + 1], Index) IN
       IF EFI_ERROR(Cpu.Status) THEN [Status |-> Cpu.Status, nodes |-> Cpu.nodes]
       ELSE GicCLoop(c, Cpu.nodes, Index + 1)

\* CreateTopologyFromGicC with its loop started at the second object.
CreateTopologyFromGicC_FromSecond(c, nodes) ==
  IF EFI_ERROR(Service(c, "GetEArmObjGicCInfo")) THEN [Status |-> Service(c, "GetEArmObjGicCInfo"), nodes |-> nodes]
  ELSE IF c.GicC = <<>> THEN [Status |-> EFI_NOT_FOUND, nodes |-> nodes]
  ELSE GicCLoop(c, nodes, 1)

CreateTopologyFromGicC(c, nodes) ==
  IF EFI_ERROR(Service(c, "GetEArmObjGicCInfo")) THEN [Status |-> Service(c, "GetEArmObjGicCInfo"), nodes |-> nodes]
  ELSE IF c.GicC = <<>> THEN [Status |-> EFI_NOT_FOUND, nodes |-> nodes]
  ELSE GicCLoop(c, nodes, 0)

---------------------------------------------------------------------------
(* The idle states.                                                        *)

\* The CM_ARM_OBJ_REF lists and the CM_ARM_LPI_INFO objects of every
\* platform: token 5 refers to one state and token 6 to two.
CmRefObjects == (5 :> <<51>>) @@ (6 :> <<61, 62>>)
LpiInfoObjects == (51 :> [StateName |-> "WFI"]) @@ (61 :> [StateName |-> "WFI"]) @@ (62 :> [StateName |-> "CORE_OFF"])

GetEArmObjCmRef(c, Token) ==
  IF EFI_ERROR(Service(c, "GetEArmObjCmRef")) THEN [Status |-> Service(c, "GetEArmObjCmRef"), LpiRefInfo |-> <<>>]
  ELSE IF Token \notin DOMAIN CmRefObjects THEN [Status |-> EFI_NOT_FOUND, LpiRefInfo |-> <<>>]
  ELSE [Status |-> EFI_SUCCESS, LpiRefInfo |-> CmRefObjects[Token]]

GetEArmObjLpiInfo(c, Token) ==
  IF EFI_ERROR(Service(c, "GetEArmObjLpiInfo")) THEN [Status |-> Service(c, "GetEArmObjLpiInfo"), LpiInfo |-> NULL]
  ELSE IF Token \notin DOMAIN LpiInfoObjects THEN [Status |-> EFI_NOT_FOUND, LpiInfo |-> NULL]
  ELSE [Status |-> EFI_SUCCESS, LpiInfo |-> LpiInfoObjects[Token]]

\* The inner loop of GenerateLpiStates: one state for each reference.
RECURSIVE LpiRefLoop(_, _, _, _, _)
LpiRefLoop(c, nodes, LpiNode, LpiRefInfo, LpiRefIndex) ==
  IF LpiRefIndex >= Len(LpiRefInfo) THEN [Status |-> EFI_SUCCESS, nodes |-> nodes]
  ELSE LET Info == GetEArmObjLpiInfo(c, LpiRefInfo[LpiRefIndex + 1]) IN
       IF EFI_ERROR(Info.Status) THEN [Status |-> Info.Status, nodes |-> nodes]
       ELSE IF EFI_ERROR(Service(c, "AmlAddLpiState")) THEN [Status |-> Service(c, "AmlAddLpiState"), nodes |-> nodes]
       ELSE LpiRefLoop(c, [nodes EXCEPT ![LpiNode].States = Append(@, Info.LpiInfo.StateName)], LpiNode, LpiRefInfo, LpiRefIndex + 1)

\* The outer loop of GenerateLpiStates: one package for each index below
\* TokenTable.LastIndex.
RECURSIVE LpiLoop(_, _, _, _, _)
LpiLoop(c, g, nodes, Index, Junk) ==
  IF Index >= g.TokenTable.LastIndex THEN [Status |-> EFI_SUCCESS, nodes |-> nodes]
  ELSE LET Name    == WriteAslName("L", Index)
           LpiNode == Len(nodes) + 1
           Created == Append(nodes, [Device(Name.AslName, SB_SCOPE_NODE) EXCEPT !.Type = "Lpi"])
           Ref     == GetEArmObjCmRef(c, TableSlot(g, Index, Junk))
           States  == LpiRefLoop(c, Created, LpiNode, Ref.LpiRefInfo, 0)
       IN
       IF EFI_ERROR(Name.Status) THEN [Status |-> Name.Status, nodes |-> nodes]
       ELSE IF EFI_ERROR(Service(c, "AmlCreateLpiNode")) THEN [Status |-> Service(c, "AmlCreateLpiNode"), nodes |-> nodes]
       ELSE IF EFI_ERROR(Ref.Status) THEN [Status |-> Ref.Status, nodes |-> Created]
       ELSE IF EFI_ERROR(States.Status) THEN States
       ELSE LpiLoop(c, g, States.nodes, Index + 1, Junk)

\* GenerateLpiStates that starts at the second token of the table.
GenerateLpiStates_FromSecond(c, g, nodes, Junk) == LpiLoop(c, g, nodes, 1, Junk)

GenerateLpiStates(c, g, nodes, Junk) == LpiLoop(c, g, nodes, 0, Junk)

---------------------------------------------------------------------------
(* BuildSsdtCpuTopologyTable.  A pass is at "idle" before it starts and    *)
(* after it returned, at "tree" in CreateAmlCpuTopologyTree, whose frames  *)
(* are in pass.stack, at "lpi" before GenerateLpiStates, and at "crashed"  *)
(* when the program stopped.                                               *)

\* The most passes on the generator, records of a platform and frames.
MaxPasses == 1
MaxProcNodes == 3
MaxDepth == 4

NoTable == [written |-> FALSE, nodes |-> <<>>]

NoBuild ==
  /\ cm = [ProcNodes |-> <<>>, GicC |-> <<>>, fault |-> "none"]
  /\ gen = [TokenTable |-> [Table |-> NULL, LastIndex |-> 0], ProcNodeList |-> <<>>, ProcNodeCount |-> 0, pools |-> <<>>, passes |-> 0]
  /\ aml = [RootNode |-> "none", nodes |-> <<>>]
  /\ pass = [pc |-> "idle", stack |-> <<>>, ret |-> "none", error |-> "none", topo |-> "none", Table |-> NoTable, freeRet |-> "none"]

\* AmlDeleteTree of a node that exists.
AmlDeleteTree(Node) == IF Node = "none" THEN EFI_INVALID_PARAMETER ELSE EFI_SUCCESS

\* The program stops: a store or a fetch outside an array, or no stack left.
Crash ==
  /\ pass' = [pass EXCEPT !.pc = "crashed"]
  /\ UNCHANGED <<gen, aml>>

\* exit_handler of BuildSsdtCpuTopologyTable: Error is the first error
\* met, Table what AmlSerializeDefinitionBlock wrote, Topo the status that
\* CreateTopologyFromProcHierarchy returned.
exit_handler(g, nodes, Error, Table, Topo) ==
  /\ gen' = [g EXCEPT !.passes = @ + 1]
  /\ aml' = [RootNode |-> "deleted", nodes |-> nodes]
  /\ pass' = [pc |-> "idle", stack |-> <<>>, ret |-> AmlDeleteTree("live"), error |-> Error, topo |-> Topo, Table |-> Table, freeRet |-> "none"]

\* BuildSsdtCpuTopologyTable from the return of the function that made the
\* topology, with Status, on.
Serialize(c, g, nodes, Status, Topo) ==
  IF EFI_ERROR(Status) THEN exit_handler(g, nodes, Status, NoTable, Topo)
  ELSE IF EFI_ERROR(Service(c, "AmlSerializeDefinitionBlock")) THEN exit_handler(g, nodes, Service(c, "AmlSerializeDefinitionBlock"), NoTable, Topo)
  ELSE exit_handler(g, nodes, "none", [written |-> TRUE, nodes |-> nodes], Topo)

\* exit_handler of CreateTopologyFromProcHierarchy.
TopologyExit(c, g, nodes, Status) == Serialize(c, TokenTableFree(g), nodes, Status, Status)

\* The records with no parent and the physical package flag.
TopLevelProcNodes(ProcNodeList) ==
  {Index \in 1..Len(ProcNodeList) : ProcNodeList[Index].ParentToken = CM_NULL_TOKEN /\ BitAnd(ProcNodeList[Index].Flags, EFI_ACPI_6_3_PPTT_PACKAGE_PHYSICAL) # 0}

\* CreateTopologyFromProcHierarchy up to its call of
\* CreateAmlCpuTopologyTree.  With no top level record it fetches the token
\* of ProcNodeList[0xFFFFFFFF]: the program stops or gets u.Junk.
CreateTopologyFromProcHierarchy(c, g, u) ==
  LET Table == TokenTableInitialize(c, g, g.ProcNodeCount)
      Tops  == TopLevelProcNodes(g.ProcNodeList)
      Enter(NodeToken) ==
        /\ gen' = Table.gen
        /\ aml' = [RootNode |-> "live", nodes |-> <<>>]
        /\ pass' = [pc |-> "tree", stack |-> <<[NodeToken |-> NodeToken, ParentNode |-> SB_SCOPE_NODE, Index |-> 0, CpuIndex |-> 0, ClusterIndex |-> 0]>>, ret |-> "none", error |-> "none", topo |-> "none", Table |-> NoTable, freeRet |-> "none"]
  IN
  IF EFI_ERROR(Table.Status) THEN Serialize(c, g, <<>>, Table.Status, Table.Status)
  ELSE IF Cardinality(Tops) >= 2 THEN TopologyExit(c, Table.gen, <<>>, Table.Status)
  ELSE IF Tops = {} THEN (IF u.crash THEN Crash ELSE Enter(u.Junk))
  ELSE Enter(g.ProcNodeList[CHOOSE Index \in Tops : TRUE].Token)

GetEArmObjProcHierarchyInfo(c) ==
  IF EFI_ERROR(Service(c, "GetEArmObjProcHierarchyInfo")) THEN Service(c, "GetEArmObjProcHierarchyInfo")
  ELSE IF c.ProcNodes = <<>> THEN EFI_NOT_FOUND
  ELSE EFI_SUCCESS

BuildSsdtCpuTopologyTable(c, u) ==
  /\ pass.pc = "idle"
  /\ gen.passes < MaxPasses
  /\ cm' = c
  /\ IF EFI_ERROR(Service(c, "AmlCodeGenDefinitionBlock"))
     THEN /\ gen' = [gen EXCEPT !.passes = @ + 1]
          /\ aml' = [RootNode |-> "none", nodes |-> <<>>]
          /\ pass' = [pc |-> "idle", stack |-> <<>>, ret |-> Service(c, "AmlCodeGenDefinitionBlock"), error |-> Service(c, "AmlCodeGenDefinitionBlock"), topo |-> "none", Table |-> NoTable, freeRet |-> "none"]
     ELSE IF EFI_ERROR(Service(c, "AmlCodeGenScope"))
     THEN exit_handler(gen, <<>>, Service(c, "AmlCodeGenScope"), NoTable, "none")
     ELSE IF EFI_ERROR(GetEArmObjProcHierarchyInfo(c)) /\ GetEArmObjProcHierarchyInfo(c) # EFI_NOT_FOUND
     THEN exit_handler(gen, <<>>, GetEArmObjProcHierarchyInfo(c), NoTable, "none")
     ELSE IF GetEArmObjProcHierarchyInfo(c) = EFI_NOT_FOUND
     THEN Serialize(c, gen, CreateTopologyFromGicC(c, <<>>).nodes, CreateTopologyFromGicC(c, <<>>).Status, "none")
     ELSE CreateTopologyFromProcHierarchy(c, [gen EXCEPT !.ProcNodeList = c.ProcNodes, !.ProcNodeCount = Len(c.ProcNodes)], u)
  /\ UNCHANGED <<chk, unit, rdVars>>

\* CreateAmlCpuTopologyTree without the test of the flags of a Cpu.
CreateAmlCpuTopologyTree_AnyCpuFlags(u) ==
  /\ pass.pc = "tree"
  /\ LET Depth  == Len(pass.stack)
         Frame  == pass.stack[Depth]
         Info   == gen.ProcNodeList[Frame.Index + 1]
         Cpu    == CreateAmlCpuFromProcHierarchy(cm, gen, aml.nodes, Frame.ParentNode, Frame.CpuIndex, Info, u.Junk)
         Cluster == CreateAmlCluster(cm, gen, aml.nodes, Frame.ParentNode, Info, Frame.ClusterIndex, u.Junk)
     IN
     IF Frame.Index >= gen.ProcNodeCount
     THEN /\ pass' = [pass EXCEPT !.pc = IF Depth = 1 THEN "lpi" ELSE "tree", !.stack = SubSeq(pass.stack, 1, Depth - 1)]
          /\ UNCHANGED <<gen, aml>>
     ELSE IF Info.ParentToken # Frame.NodeToken
     THEN /\ pass' = [pass EXCEPT !.stack[Depth].Index = @ + 1]
          /\ UNCHANGED <<gen, aml>>
     ELSE IF Info.GicCToken # CM_NULL_TOKEN
     THEN IF FALSE
          THEN TopologyExit(cm, gen, aml.nodes, EFI_INVALID_PARAMETER)
          ELSE IF Cpu.overrun /\ u.crash THEN Crash
          ELSE IF EFI_ERROR(Cpu.Status) THEN TopologyExit(cm, Cpu.gen, Cpu.nodes, Cpu.Status)
          ELSE /\ gen' = Cpu.gen
               /\ aml' = [aml EXCEPT !.nodes = [Cpu.nodes EXCEPT ![Len(aml.nodes) + 1].Record = Frame.Index + 1]]
               /\ pass' = [pass EXCEPT !.stack[Depth].Index = @ + 1, !.stack[Depth].CpuIndex = @ + 1]
     ELSE IF BitAnd(Info.Flags, PPTT_PROCESSOR_MASK) # PPTT_CLUSTER_PROCESSOR_MASK
          THEN TopologyExit(cm, gen, aml.nodes, EFI_INVALID_PARAMETER)
          ELSE IF Cluster.overrun /\ u.crash THEN Crash
          ELSE IF EFI_ERROR(Cluster.Status) THEN TopologyExit(cm, Cluster.gen, Cluster.nodes, Cluster.Status)
          ELSE IF Depth >= MaxDepth THEN Crash
          ELSE /\ gen' = Cluster.gen
               /\ aml' = [aml EXCEPT !.nodes = [Cluster.nodes EXCEPT ![Len(aml.nodes) + 1].Record = Frame.Index + 1]]
               /\ pass' = [pass EXCEPT !.stack = Append([pass.stack EXCEPT ![Depth].Index = @ + 1, ![Depth].ClusterIndex = @ + 1, ![Depth].CpuIndex = 0], [NodeToken |-> Info.Token, ParentNode |-> Cluster.ClusterNode, Index |-> 0, CpuIndex |-> 0, ClusterIndex |-> 0])]
  /\ UNCHANGED <<chk, unit, rdVars, cm>>

\* One turn of the loop of the innermost CreateAmlCpuTopologyTree, or its
\* return when the loop is over.
CreateAmlCpuTopologyTree(u) ==
  /\ pass.pc = "tree"
  /\ LET Depth  == Len(pass.stack)
         Frame  == pass.stack[Depth]
         Info   == gen.ProcNodeList[Frame.Index + 1]
         Cpu    == CreateAmlCpuFromProcHierarchy(cm, gen, aml.nodes, Frame.ParentNode, Frame.CpuIndex, Info, u.Junk)
         Cluster == CreateAmlCluster(cm, gen, aml.nodes, Frame.ParentNode, Info, Frame.ClusterIndex, u.Junk)
     IN
     IF Frame.Index >= gen.ProcNodeCount
     THEN /\ pass' = [pass EXCEPT !.pc = IF Depth = 1 THEN "lpi" ELSE "tree", !.stack = SubSeq(pass.stack, 1, Depth - 1)]
          /\ UNCHANGED <<gen, aml>>
     ELSE IF Info.ParentToken # Frame.NodeToken
     THEN /\ pass' = [pass EXCEPT !.stack[Depth].Index = @ + 1]
          /\ UNCHANGED <<gen, aml>>
     ELSE IF Info.GicCToken # CM_NULL_TOKEN
     THEN IF BitAnd(Info.Flags, PPTT_PROCESSOR_MASK) # PPTT_CPU_PROCESSOR_MASK
          THEN TopologyExit(cm, gen, aml.nodes, EFI_INVALID_PARAMETER)
          ELSE IF Cpu.overrun /\ u.crash THEN Crash
          ELSE IF EFI_ERROR(Cpu.Status) THEN TopologyExit(cm, Cpu.gen, Cpu.nodes, Cpu.Status)
          ELSE /\ gen' = Cpu.gen
               /\ aml' = [aml EXCEPT !.nodes = [Cpu.nodes EXCEPT ![Len(aml.nodes) + 1].Record = Frame.Index + 1]]
               /\ pass' = [pass EXCEPT !.stack[Depth].Index = @ + 1, !.stack[Depth].CpuIndex = @ + 1]
     ELSE IF BitAnd(Info.Flags, PPTT_PROCESSOR_MASK) # PPTT_CLUSTER_PROCESSOR_MASK
          THEN TopologyExit(cm, gen, aml.nodes, EFI_INVALID_PARAMETER)
          ELSE IF Cluster.overrun /\ u.crash THEN Crash
          ELSE IF EFI_ERROR(Cluster.Status) THEN TopologyExit(cm, Cluster.gen, Cluster.nodes, Cluster.Status)
          ELSE IF Depth >= MaxDepth THEN Crash
          ELSE /\ gen' = Cluster.gen
               /\ aml' = [aml EXCEPT !.nodes = [Cluster.nodes EXCEPT ![Len(aml.nodes) + 1].Record = Frame.Index + 1]]
               /\ pass' = [pass EXCEPT !.stack = Append([pass.stack EXCEPT ![Depth].Index = @ + 1, ![Depth].ClusterIndex = @ + 1, ![Depth].CpuIndex = 0], [NodeToken |-> Info.Token, ParentNode |-> Cluster.ClusterNode, Index |-> 0, CpuIndex |-> 0, ClusterIndex |-> 0])]
  /\ UNCHANGED <<chk, unit, rdVars, cm>>

\* CreateTopologyFromProcHierarchy from the return of the outermost
\* CreateAmlCpuTopologyTree on.
GenerateLpiStatesStep(u) ==
  /\ pass.pc = "lpi"
  /\ LET Lpi == GenerateLpiStates(cm, gen, aml.nodes, u.Junk) IN
     TopologyExit(cm, gen, Lpi.nodes, Lpi.Status)
  /\ UNCHANGED <<chk, unit, rdVars, cm>>

FreeSsdtCpuTopologyTableResources ==
  /\ pass.pc = "idle"
  /\ pass.ret # "none"
  /\ pass.freeRet = "none"
  /\ pass' = [pass EXCEPT !.Table = NoTable, !.freeRet = IF pass.Table.written THEN EFI_SUCCESS ELSE EFI_INVALID_PARAMETER]
  /\ UNCHANGED <<chk, unit, rdVars, cm, gen, aml>>

---------------------------------------------------------------------------
(* The platforms.                                                          *)

ProcNode(Token, ParentToken, GicCToken, LpiToken, Flags) ==
  [Token |-> Token, ParentToken |-> ParentToken, GicCToken |-> GicCToken, LpiToken |-> LpiToken, Flags |-> Flags]

GicCObjects == <<[Token |-> 9, AcpiProcessorUid |-> 40], [Token |-> 8, AcpiProcessorUid |-> 41]>>

\* The package (token 1), a cluster (token 2) under the package and one
\* that is its own parent, a Cpu (token 3) under the package and one under
\* the cluster, with idle states, and a Cpu and a cluster with the flags of
\* the other kind.
ProcNodes ==
  {ProcNode(1, CM_NULL_TOKEN, CM_NULL_TOKEN, CM_NULL_TOKEN, EFI_ACPI_6_3_PPTT_PACKAGE_PHYSICAL)}
  \cup {ProcNode(2, 1, CM_NULL_TOKEN, 5, PPTT_CLUSTER_PROCESSOR_MASK), ProcNode(2, 2, CM_NULL_TOKEN, CM_NULL_TOKEN, PPTT_CLUSTER_PROCESSOR_MASK)}
  \cup {ProcNode(3, 1, 9, 5, PPTT_CPU_PROCESSOR_MASK), ProcNode(3, 2, 9, 6, PPTT_CPU_PROCESSOR_MASK)}
  \cup {ProcNode(3, 1, 9, CM_NULL_TOKEN, PPTT_CLUSTER_PROCESSOR_MASK), ProcNode(2, 1, CM_NULL_TOKEN, CM_NULL_TOKEN, PPTT_CPU_PROCESSOR_MASK)}

ProcNodeLists == UNION {[1..n -> ProcNodes] : n \in 1..MaxProcNodes}

\* A service fails on the platforms whose first record is the package, and
\* on those with no record.
Platforms ==
  {[ProcNodes |-> l, GicC |-> GicCObjects, fault |-> "none"] : l \in ProcNodeLists}
  \cup {[ProcNodes |-> l, GicC |-> GicCObjects, fault |-> f] : l \in {k \in ProcNodeLists : k[1].ParentToken = CM_NULL_TOKEN}, f \in Services}
  \cup {[ProcNodes |-> <<>>, GicC |-> SubSeq(GicCObjects, 1, n), fault |-> f] : n \in 0..Len(GicCObjects), f \in Services \cup {"none"}}

\* What memory outside the arrays holds, and whether touching it stops
\* the program.
Undefined == [Junk : {CM_NULL_TOKEN, 2, 5}, crash : BOOLEAN]

Defined == [Junk |-> CM_NULL_TOKEN, crash |-> FALSE]

UndefinedIf(outside) == IF outside THEN Undefined ELSE {Defined}

\* The next token goes past the end of the token table.
PastEnd(g) == g.TokenTable.Table # NULL /\ g.TokenTable.LastIndex >= Len(g.pools[g.TokenTable.Table].slots)

NextBuild ==
  \/ \E c \in Platforms : \E u \in UndefinedIf(c.ProcNodes # <<>> /\ TopLevelProcNodes(c.ProcNodes) = {}) : BuildSsdtCpuTopologyTable(c, u)
  \/ \E u \in UndefinedIf(PastEnd(gen)) : CreateAmlCpuTopologyTree(u)
  \/ \E u \in UndefinedIf(PastEnd(gen)) : GenerateLpiStatesStep(u)
  \/ FreeSsdtCpuTopologyTableResources

---------------------------------------------------------------------------
(* The token table used on its own, as CreateTopologyFromProcHierarchy     *)
(* uses it: TokenTableInitialize, calls of TokenTableAdd, TokenTableFree,  *)
(* and the same again on the same generator.  unit.calls holds the calls   *)
(* of TokenTableAdd since the last TokenTableInitialize, unit.start the    *)
(* LastIndex that TokenTableInitialize found.                              *)

\* The most tables initialised, the largest Count, the most calls of
\* TokenTableAdd on one table.
MaxTables == 2
MaxCount == 2
MaxAdds == 3
Tokens == {1, 2, 3}

NewGenerator ==
  [TokenTable |-> [Table |-> NULL, LastIndex |-> 0], ProcNodeList |-> <<>>, ProcNodeCount |-> 0, pools |-> <<>>, passes |-> 0]

\* The table as TokenTableAdd sees it: its count and its array.
TableOf(g) == [LastIndex |-> g.TokenTable.LastIndex, slots |-> g.pools[g.TokenTable.Table].slots]

TokenTableInitializeCall(Count, fault) ==
  /\ unit.fn \in {"none", "TokenTableFree"}
  /\ (IF unit.fn = "none" THEN 0 ELSE unit.tables) < MaxTables
  /\ LET g == IF unit.fn = "none" THEN NewGenerator ELSE unit.gen
         r == TokenTableInitialize([ProcNodes |-> <<>>, GicC |-> <<>>, fault |-> fault], [g EXCEPT !.ProcNodeCount = Count], Count)
     IN unit' = [fn |-> IF EFI_ERROR(r.Status) THEN "TokenTableFree" ELSE "TokenTableInitialize", calls |-> <<>>, gen |-> r.gen, start |-> g.TokenTable.LastIndex, tables |-> (IF unit.fn = "none" THEN 0 ELSE unit.tables) + 1]
  /\ UNCHANGED <<chk, rdVars, topoVars>>

TokenTableAddCall(Token, u) ==
  /\ unit.fn \in {"TokenTableInitialize", "TokenTableAdd"}
  /\ Len(unit.calls) < MaxAdds
  /\ LET r == TokenTableAdd(unit.gen, Token, u.Junk) IN
     IF r.overrun /\ u.crash
     THEN unit' = [unit EXCEPT !.fn = "crashed"]
     ELSE unit' = [unit EXCEPT !.fn = "TokenTableAdd", !.gen = r.gen, !.calls = Append(@, [Token |-> Token, Index |-> r.Index, Before |-> TableOf(unit.gen), After |-> TableOf(r.gen)])]
  /\ UNCHANGED <<chk, rdVars, topoVars>>

TokenTableFreeCall ==
  /\ unit.fn \in {"TokenTableInitialize", "TokenTableAdd"}
  /\ unit' = [unit EXCEPT !.fn = "TokenTableFree", !.gen = TokenTableFree(unit.gen)]
  /\ UNCHANGED <<chk, rdVars, topoVars>>

NextTable ==
  \/ \E Count \in 0..MaxCount, fault \in {"none", "AllocateZeroPool"} : TokenTableInitializeCall(Count, fault)
  \/ \E Token \in Tokens : \E u \in UndefinedIf(unit.fn \in {"TokenTableInitialize", "TokenTableAdd"} /\ PastEnd(unit.gen)) : TokenTableAddCall(Token, u)
  \/ TokenTableFreeCall

---------------------------------------------------------------------------
(* The calls of the public encoders.                                       *)

\* The most data nodes a behaviour allocates.
MaxNodes == 3

NoCall ==
  [fn |-> "none", args |-> [none |-> TRUE], ParentNode |-> NULL_OBJECT, NewRdNode |-> FALSE, status |-> "none", RdNode |-> NULL, buffer |-> <<>>, deleted |-> FALSE, prevList |-> <<>>, prevSlot |-> NULL, written |-> 0, stray |-> 0]

\* No call was made yet and no node exists.
NoResourceData ==
  /\ heap = <<>>
  /\ nextNode = 1
  /\ rdList = <<>>
  /\ slot = NULL
  /\ freed = {}
  /\ call = NoCall

\* The environments that differ in what a call with this parent consults.
EnvsOf(ParentNode, MayOverrun) ==
  {env \in Envs : /\ (ParentNode = NULL_OBJECT) => (env.insert = EFI_SUCCESS)
                  /\ (ParentNode # NULL_OBJECT) => (env.garbage = EFI_SUCCESS)
                  /\ EFI_ERROR(env.create) => (env.insert = EFI_SUCCESS /\ env.garbage = EFI_SUCCESS)
                  /\ ~MayOverrun => ~env.smash}

\* The state after a call that returned r.
Return(fn, a, ParentNode, NewRdNode, r) ==
  /\ heap' = IF r.RdNode # NULL /\ ~r.deleted THEN heap @@ (r.RdNode :> r.buffer) ELSE heap
  /\ nextNode' = IF r.RdNode # NULL THEN nextNode + 1 ELSE nextNode
  /\ rdList' = r.list
  /\ slot' = r.slot
  /\ freed' = IF r.deleted THEN freed \cup {r.RdNode} ELSE freed
  /\ call' = [fn |-> fn, args |-> a, ParentNode |-> ParentNode, NewRdNode |-> NewRdNode, status |-> r.status, RdNode |-> r.RdNode, buffer |-> r.buffer, deleted |-> r.deleted, prevList |-> rdList, prevSlot |-> slot, written |-> r.written, stray |-> r.stray]
  /\ UNCHANGED <<chk, unit, topoVars>>

CanCall ==
  /\ call.status # STACK_CORRUPTED
  /\ nextNode <= MaxNodes

RdDWordIoCall(Args, Parents) ==
  /\ CanCall
  /\ \E a \in Args, NameOpNode \in Parents, NewRdNode \in BOOLEAN :
     \E env \in EnvsOf(NameOpNode, FALSE) :
        Return("AmlCodeGenRdDWordIo", a, NameOpNode, NewRdNode, AmlCodeGenRdDWordIo(a, NameOpNode, NewRdNode, env))

RdDWordMemoryCall(Args, Parents) ==
  /\ CanCall
  /\ \E a \in Args, NameOpNode \in Parents, NewRdNode \in BOOLEAN :
     \E env \in EnvsOf(NameOpNode, FALSE) :
        Return("AmlCodeGenRdDWordMemory", a, NameOpNode, NewRdNode, AmlCodeGenRdDWordMemory(a, NameOpNode, NewRdNode, env))

RdWordBusNumberCall(Args, Parents) ==
  /\ CanCall
  /\ \E a \in Args, NameOpNode \in Parents, NewRdNode \in BOOLEAN :
     \E env \in EnvsOf(NameOpNode, FALSE) :
        Return("AmlCodeGenRdWordBusNumber", a, NameOpNode, NewRdNode, AmlCodeGenRdWordBusNumber(a, NameOpNode, NewRdNode, env))

RdQWordMemoryCall(Args, Parents) ==
  /\ CanCall
  /\ \E a \in Args, NameOpNode \in Parents, NewRdNode \in BOOLEAN :
     \E env \in EnvsOf(NameOpNode, FALSE) :
        Return("AmlCodeGenRdQWordMemory", a, NameOpNode, NewRdNode, AmlCodeGenRdQWordMemory(a, NameOpNode, NewRdNode, env))

RdInterruptCall(Args, Parents) ==
  /\ CanCall
  /\ \E a \in Args, NameOpNode \in Parents, NewRdNode \in BOOLEAN :
     \E env \in EnvsOf(NameOpNode, TRUE) :
        Return("AmlCodeGenRdInterrupt", a, NameOpNode, NewRdNode, AmlCodeGenRdInterrupt(a, NameOpNode, NewRdNode, env))

RdRegisterCall(Args, Parents) ==
  /\ CanCall
  /\ \E a \in Args, NameOpNode \in Parents, NewRdNode \in BOOLEAN :
     \E env \in EnvsOf(NameOpNode, FALSE) :
        Return("AmlCodeGenRdRegister", a, NameOpNode, NewRdNode, AmlCodeGenRdRegister(a, NameOpNode, NewRdNode, env))

EndTagCall(Args) ==
  /\ CanCall
  /\ \E a \in Args, ParentNode \in {NULL_OBJECT, "CrsBuffer"}, NewRdNode \in BOOLEAN :
     \E env \in EnvsOf(ParentNode, FALSE) :
        Return("AmlCodeGenEndTag", a, ParentNode, NewRdNode, AmlCodeGenEndTag(a, ParentNode, NewRdNode, env))

---------------------------------------------------------------------------
(* The validator as the address-space encoders call it: the 16-, 32- and   *)
(* 64-bit variants pass their UINT16/UINT32/UINT64 arguments, which are    *)
(* converted to the UINT64 parameters of CheckAddressSpaceFields.          *)

\* The values an n-byte field is drawn from: 0..MaxLow and the MaxHigh + 1
\* largest values of the type.
FieldValues(n) == {Small(k, n) : k \in 0..MaxLow} \cup {Top(k, n) : k \in 0..MaxHigh}

NoCheck == [fn |-> "none", w |-> 0, IsMinFixed |-> FALSE, IsMaxFixed |-> FALSE, gran |-> <<>>, min |-> <<>>, max |-> <<>>, len |-> <<>>, status |-> "none"]

\* What a variant with n-byte fields gets from the validator.
CheckedFields(fn, n, IsMinFixed, IsMaxFixed, gran, min, max, trans, len) ==
  [fn |-> fn, w |-> n, IsMinFixed |-> IsMinFixed, IsMaxFixed |-> IsMaxFixed,
   gran |-> gran, min |-> min, max |-> max, len |-> len,
   status |-> CheckAddressSpaceFields(IsMinFixed, IsMaxFixed,
                ZeroExtend(gran, SIZE_UINT64), ZeroExtend(min, SIZE_UINT64),
                ZeroExtend(max, SIZE_UINT64), ZeroExtend(trans, SIZE_UINT64),
                ZeroExtend(len, SIZE_UINT64))]

ValidateFields(fn, n) ==
  /\ chk.fn = "none"
  /\ UNCHANGED <<unit, rdVars, topoVars>>
  /\ \E IsMinFixed \in BOOLEAN, IsMaxFixed \in BOOLEAN :
     \E gran \in FieldValues(n), min \in FieldValues(n), max \in FieldValues(n), len \in FieldValues(n) :
        chk' = CheckedFields(fn, n, IsMinFixed, IsMaxFixed, gran, min, max, Small(0, n), len)

WordSpaceCheck  == ValidateFields("AmlCodeGenRdWordSpace", SIZE_UINT16)

DWordSpaceCheck == ValidateFields("AmlCodeGenRdDWordSpace", SIZE_UINT32)

QWordSpaceCheck == ValidateFields("AmlCodeGenRdQWordSpace", SIZE_UINT64)

InitValidator == chk = NoCheck /\ unit = NoUnit /\ NoResourceData /\ NoBuild

NextValidator == WordSpaceCheck \/ DWordSpaceCheck \/ QWordSpaceCheck

SpecValidator == InitValidator /\ [][NextValidator]_vars

---------------------------------------------------------------------------
(* The rules of the address-range validator in unbounded arithmetic: every *)
(* operand is widened by one byte, so that no sum wraps.                   *)

Wide == SIZE_UINT64 + 1

RECURSIVE Pow2(_)
Pow2(n) == IF n = 0 THEN 1 ELSE 2 * Pow2(n - 1)

\* The w-byte value 2^n - 1.
LowOnes(n, w) ==
  [i \in 1..w |-> IF 8 * i <= n THEN 255
                  ELSE IF 8 * (i - 1) >= n THEN 0
                  ELSE Pow2(n - 8 * (i - 1)) - 1]

RangeRules(c) ==
  LET min  == ZeroExtend(c.min, Wide)
      max  == ZeroExtend(c.max, Wide)
      len  == ZeroExtend(c.len, Wide)
      gran == ZeroExtend(c.gran, Wide)
      one  == Small(1, Wide)
      span == AddBytes(SubBytes(max, min), one)
  IN  /\ ~GtBytes(min, max)
      /\ ~GtBytes(len, span)
      /\ \E n \in 0..(8 * c.w) : c.gran = LowOnes(n, c.w)
      /\ ~IsZero(len) =>
            /\ c.IsMinFixed = c.IsMaxFixed
            /\ (c.IsMinFixed /\ c.IsMaxFixed /\ ~IsZero(gran)) => span = len
      /\ IsZero(len) =>
            /\ ~(c.IsMinFixed /\ c.IsMaxFixed)
            /\ c.IsMinFixed => IsZero(AndBytes(min, gran))
            /\ c.IsMaxFixed => IsZero(AndBytes(AddBytes(max, one), gran))

\* C1: for the 16-bit and the 32-bit variants CheckAddressSpaceFields returns
\* EFI_SUCCESS exactly when all the range rules hold, and
\* EFI_INVALID_PARAMETER in every other case.
C1_ValidatorIffRules ==
  (chk.fn # "none" /\ chk.w \in {SIZE_UINT16, SIZE_UINT32}) =>
     /\ chk.status \in {EFI_SUCCESS, EFI_INVALID_PARAMETER}
     /\ (chk.status = EFI_SUCCESS) <=> RangeRules(chk)

\* A 32-bit range with both ends fixed, a non-zero granularity and a length
\* equal to the span is accepted.
C1_Witness ==
  /\ chk.fn = "AmlCodeGenRdDWordSpace"
  /\ chk.IsMinFixed /\ chk.IsMaxFixed
  /\ ~IsZero(chk.gran) /\ ~IsZero(chk.len)
  /\ chk.status = EFI_SUCCESS

\* C2: a 64-bit range spanning the whole address space (minimum 0, maximum
\* 2^64 - 1), with a non-zero length, no fixed end and granularity 0, is
\* accepted.
C2_FullSpanAccepted ==
  (/\ chk.fn = "AmlCodeGenRdQWordSpace"
   /\ IsZero(chk.min) /\ chk.max = Top(0, SIZE_UINT64)
   /\ ~IsZero(chk.len)
   /\ ~chk.IsMinFixed /\ ~chk.IsMaxFixed /\ IsZero(chk.gran))
  => chk.status = EFI_SUCCESS

---------------------------------------------------------------------------
(* The arguments of the calls.                                             *)

\* A fixed range of n-byte fields with no granularity and no translation.
Range(n, min, max, len) ==
  [IsResourceConsumer |-> TRUE, IsPosDecode |-> TRUE, IsMinFixed |-> TRUE, IsMaxFixed |-> TRUE, AddressGranularity |-> Small(0, n), AddressMinimum |-> Small(min, n), AddressMaximum |-> Small(max, n), AddressTranslation |-> Small(0, n), RangeLength |-> Small(len, n), ResourceSourceIndex |-> 0, ResourceSource |-> NULL_STRING]

IoFlags(IsaRanges) ==
  [IsaRanges |-> IsaRanges, IsDenseTranslation |-> FALSE, IsTypeStatic |-> TRUE]

MemFlags(MemoryRangeType) ==
  [Cacheable |-> 1, IsReadWrite |-> TRUE, MemoryRangeType |-> MemoryRangeType, IsTypeStatic |-> TRUE]

\* The most interrupt numbers a caller passes.
MaxIrq == 3

Irq(k) == <<32 + k, 1, 0, 128>>

IrqLists == {NULL_LIST, [k \in 1..MaxIrq |-> Irq(k)]}

\* The calls of the behaviours that make several calls: one call that passes
\* the parameter checks for each kind of header (an address space, which
\* stands for the encoders that end in the same AddressSpaceDescriptor, an
\* interrupt with one or two numbers, a register, an End Tag), on no
\* parent, on the name of the buffer and on an object that is no name.
Parents == {NULL_OBJECT, "CrsName", "Scope"}
DWordIoArgs == {Range(SIZE_UINT32, 0, 3, 4) @@ IoFlags(3)}
InterruptArgs == {[ResourceConsumer |-> TRUE, EdgeTriggered |-> FALSE, ActiveLow |-> FALSE, Shared |-> FALSE, IrqList |-> [k \in 1..MaxIrq |-> Irq(k)], IrqCount |-> n] : n \in 1..2}
RegisterArgs == {[AddressSpace |-> 0, BitWidth |-> 32, BitOffset |-> 0, Address |-> Small(1, SIZE_UINT64), AccessSize |-> 3]}
EndTagArgs == {[CheckSum |-> 0]}

---------------------------------------------------------------------------
(* The resource data of one buffer, built by any sequence of calls.        *)

Init == chk = NoCheck /\ unit = NoUnit /\ NoResourceData /\ NoBuild

Next ==
  \/ RdDWordIoCall(DWordIoArgs, Parents)
  \/ RdInterruptCall(InterruptArgs, Parents)
  \/ RdRegisterCall(RegisterArgs, Parents)
  \/ EndTagCall(EndTagArgs)

Spec == Init /\ [][Next]_vars

SpecBuild == Init /\ [][NextBuild]_vars

SpecName == Init /\ [][NextName]_vars

SpecTable == Init /\ [][NextTable]_vars

SpecFlags == Init /\ [][NextFlags]_vars

---------------------------------------------------------------------------
(* One call of any encoder, with arguments of every kind, on a buffer that *)
(* is empty or holds its End Tag.                                          *)

\* Ranges of n-byte fields from 0 to 3: of length 0, of the length of the
\* span and longer than the span, with either end fixed or not, decoded
\* either way, with and without a resource source or a resource source
\* index.
ResourceSources == {<<0, NULL_STRING>>, <<0, "PCI0">>, <<1, NULL_STRING>>}

Ranges(n) ==
  {[Range(n, 0, 3, len) EXCEPT !.IsResourceConsumer = rc, !.IsPosDecode = f[3], !.IsMinFixed = f[1], !.IsMaxFixed = f[2], !.ResourceSourceIndex = src[1], !.ResourceSource = src[2]] : rc \in BOOLEAN, f \in BOOLEAN \X BOOLEAN \X BOOLEAN, len \in {0, 4, 5}, src \in ResourceSources}

AnyDWordIoArgs == {r @@ IoFlags(isa) : r \in Ranges(SIZE_UINT32), isa \in {3, 4}}
AnyDWordMemoryArgs == {r @@ MemFlags(t) : r \in Ranges(SIZE_UINT32), t \in {3, 4}}
AnyWordBusNumberArgs == {[r EXCEPT !.AddressMaximum = max] : r \in Ranges(SIZE_UINT32), max \in {Small(3, SIZE_UINT32), <<3, 0, 1, 0>>}}
AnyQWordMemoryArgs == {r @@ MemFlags(t) : r \in Ranges(SIZE_UINT64), t \in {3, 4}}
AnyInterruptArgs == [ResourceConsumer : BOOLEAN, EdgeTriggered : BOOLEAN, ActiveLow : BOOLEAN, Shared : BOOLEAN, IrqList : IrqLists, IrqCount : 0..MaxIrq]
AnyRegisterArgs == {[AddressSpace |-> 0, BitWidth |-> 32, BitOffset |-> 0, Address |-> x, AccessSize |-> s] : x \in {Small(1, SIZE_UINT64), Top(0, SIZE_UINT64)}, s \in 3..5}
AnyEndTagArgs == {[CheckSum |-> c] : c \in {0, 255}}
AnyParent == Owners \cup {NULL_OBJECT}

\* The buffer is as it was created or as the first AmlCodeGenEndTag left it.
Fresh == call.fn = "none" \/ (call.fn = "AmlCodeGenEndTag" /\ call.RdNode = 1 /\ rdList = <<1>>)

NextEncode ==
  \/ call.fn = "none" /\ EndTagCall(EndTagArgs)
  \/ Fresh /\ RdDWordIoCall(AnyDWordIoArgs, AnyParent)
  \/ Fresh /\ RdDWordMemoryCall(AnyDWordMemoryArgs, AnyParent)
  \/ Fresh /\ RdWordBusNumberCall(AnyWordBusNumberArgs, AnyParent)
  \/ Fresh /\ RdQWordMemoryCall(AnyQWordMemoryArgs, AnyParent)
  \/ Fresh /\ RdInterruptCall(AnyInterruptArgs, AnyParent)
  \/ Fresh /\ RdRegisterCall(AnyRegisterArgs, AnyParent)
  \/ Fresh /\ call.fn # "none" /\ EndTagCall(AnyEndTagArgs)

SpecEncode == Init /\ [][NextEncode]_vars

---------------------------------------------------------------------------
(* The program uses the encoders on a buffer or builds the Cpu topology    *)
(* table: the generator of the table calls none of the encoders.           *)

NextFailure ==
  \/ gen.passes = 0 /\ pass.pc = "idle" /\ NextEncode
  \/ call.fn = "none" /\ NextBuild

SpecFailure == Init /\ [][NextFailure]_vars

---------------------------------------------------------------------------
(* Properties of the resource list and of the encoders' results.           *)

\* The length field of the header of a record and the size of that header.
IsLarge(Buffer) == Buffer[1] >= 128
HeaderSize(Buffer) == IF IsLarge(Buffer) THEN SIZEOF_LARGE_HEADER ELSE SIZEOF_SMALL_HEADER
HeaderLength(Buffer) == IF IsLarge(Buffer) THEN Buffer[2] + (256 * Buffer[3]) ELSE Buffer[1] % 8

\* The 32-bit numbers that follow the count byte of an interrupt record.
InterruptNumbers(Buffer) ==
  [k \in 1..((Len(Buffer) - (SIZEOF_LARGE_HEADER + 2)) \div SIZE_UINT32) |-> SubSeq(Buffer, SIZEOF_LARGE_HEADER + 2 + (SIZE_UINT32 * (k - 1)) + 1, SIZEOF_LARGE_HEADER + 2 + (SIZE_UINT32 * k))]

\* The call returned to its caller.
Returned == call.fn # "none" /\ call.status # STACK_CORRUPTED

DescriptorEncoders ==
  {"AmlCodeGenRdDWordIo", "AmlCodeGenRdDWordMemory", "AmlCodeGenRdWordBusNumber", "AmlCodeGenRdQWordMemory", "AmlCodeGenRdInterrupt", "AmlCodeGenRdRegister"}

\* The positions of the list that hold an End Tag.
EndTags == {i \in 1..Len(rdList) : IsEndTag(heap[rdList[i]])}

\* C5: after any sequence of AmlCodeGenEndTag and descriptor encoder calls
\* on the buffer, failed or not, its list holds at most one End Tag, which
\* is its last element; the descriptors are before it in the order of their
\* insertion (nodes are numbered in the order of their creation), and a call
\* that links a descriptor puts it right before the End Tag.
C5_EndTagLast ==
  /\ Cardinality(EndTags) <= 1
  /\ \A i \in EndTags : i = Len(rdList)
  /\ \A i \in 1..Len(rdList), j \in 1..Len(rdList) : (i < j /\ j \notin EndTags) => rdList[i] < rdList[j]
  /\ \A i \in 1..Len(rdList) : rdList[i] \in DOMAIN heap
  /\ (Returned /\ call.fn \in DescriptorEncoders /\ rdList # call.prevList) =>
        /\ call.prevList # <<>>
        /\ rdList = SubSeq(call.prevList, 1, Len(call.prevList) - 1) \o <<call.RdNode, call.prevList[Len(call.prevList)]>>

\* Two descriptors were linked after the End Tag.
C5_Witness ==
  /\ Len(rdList) = 3
  /\ EndTags = {3}
  /\ call.fn \in DescriptorEncoders
  /\ call.RdNode = rdList[2]

\* C6 as stated: AmlCodeGenEndTag with a parent that has an element returns
\* EFI_INVALID_PARAMETER and leaves the list as it was; with a parent that
\* has none it returns EFI_SUCCESS and the list is the new End Tag alone.
C6_EndTagOnParent ==
  (call.fn = "AmlCodeGenEndTag" /\ call.ParentNode # NULL_OBJECT) =>
     IF call.prevList # <<>>
     THEN call.status = EFI_INVALID_PARAMETER /\ rdList = call.prevList
     ELSE /\ call.status = EFI_SUCCESS
          /\ rdList = <<call.RdNode>>
          /\ call.RdNode # NULL

\* C6, amended: when AmlCreateDataNode fails the call returns its status and
\* leaves the list as it was.  Otherwise, with a parent that has an element
\* it returns EFI_INVALID_PARAMETER and leaves the list as it was; with a
\* parent that has none, it returns EFI_SUCCESS and the list is the new End
\* Tag alone, or it returns the error of AmlVarListAddTail, the list is
\* still empty and the node is deleted.
C6_EndTagOnParentAllocated ==
  (call.fn = "AmlCodeGenEndTag" /\ call.ParentNode # NULL_OBJECT) =>
     IF call.RdNode = NULL
     THEN call.status = EFI_OUT_OF_RESOURCES /\ rdList = call.prevList
     ELSE IF call.prevList # <<>>
     THEN call.status = EFI_INVALID_PARAMETER /\ rdList = call.prevList /\ call.deleted
     ELSE \/ /\ call.status = EFI_SUCCESS
             /\ rdList = <<call.RdNode>>
             /\ IsEndTag(heap[call.RdNode])
          \/ /\ EFI_ERROR(call.status)
             /\ rdList = <<>>
             /\ call.deleted

\* An End Tag was refused on a list that holds descriptors.
C6_Witness ==
  /\ call.fn = "AmlCodeGenEndTag"
  /\ call.ParentNode # NULL_OBJECT
  /\ Len(call.prevList) >= 2
  /\ call.RdNode # NULL
  /\ call.status = EFI_INVALID_PARAMETER

\* C7: after an encoder given a parent returns an error having allocated a
\* node, the node is in no list and the caller's variable, if the call was
\* given its address, does not hold the node.
C7_NoReferenceAfterError ==
  (Returned /\ EFI_ERROR(call.status) /\ call.RdNode # NULL /\ call.ParentNode # NULL_OBJECT) =>
     /\ \A i \in 1..Len(rdList) : rdList[i] # call.RdNode
     /\ call.NewRdNode => slot # call.RdNode

\* C8: a descriptor encoder called with no parent and the address of the
\* caller's variable, whose parameters pass the checks and whose node is
\* allocated, returns EFI_SUCCESS; the variable holds the node, which exists
\* and is in no list, and the list is as it was.
C8_StandaloneNode ==
  (Returned /\ call.fn \in DescriptorEncoders /\ call.ParentNode = NULL_OBJECT /\ call.NewRdNode /\ call.RdNode # NULL) =>
     /\ call.status = EFI_SUCCESS
     /\ slot = call.RdNode
     /\ call.RdNode \in DOMAIN heap
     /\ \A i \in 1..Len(rdList) : rdList[i] # call.RdNode
     /\ rdList = call.prevList

\* C9: for IrqCount >= 1 the record AmlCodeGenRdInterrupt makes has
\* IrqCount in its count byte, holds the first IrqCount numbers of IrqList
\* and no other, has 2 + 4 * IrqCount in the length field of its header and
\* that plus the size of the header as its size; and no byte was stored
\* outside the local descriptor.
C9_InterruptRecord ==
  (call.fn = "AmlCodeGenRdInterrupt" /\ call.args.IrqCount >= 1 /\ call.written > 0) =>
     /\ call.stray = 0
     /\ call.RdNode # NULL =>
           /\ call.buffer[SIZEOF_LARGE_HEADER + 2] = call.args.IrqCount
           /\ InterruptNumbers(call.buffer) = SubSeq(call.args.IrqList, 1, call.args.IrqCount)
           /\ HeaderLength(call.buffer) = 2 + (SIZE_UINT32 * call.args.IrqCount)
           /\ Len(call.buffer) = SIZEOF_LARGE_HEADER + 2 + (SIZE_UINT32 * call.args.IrqCount)

\* C10: for every kind of descriptor and every call that makes a node, the
\* length field of the header is the number of bytes stored after the
\* header, and the size of the node is that length plus the size of the
\* header.
C10_HeaderLength ==
  (call.fn # "none" /\ call.RdNode # NULL) =>
     /\ HeaderLength(call.buffer) = call.written
     /\ Len(call.buffer) = HeaderLength(call.buffer) + HeaderSize(call.buffer)


---------------------------------------------------------------------------
(* The properties of BuildSsdtCpuTopologyTable.                            *)

\* CreateTopologyFromProcHierarchy has returned in this pass.
TopologyReturned == pass.pc = "idle" /\ pass.topo # "none"

HasDevice(nodes) == \E n \in 1..Len(nodes) : nodes[n].Type = "Device"

\* C3: with no service failing, CreateTopologyFromProcHierarchy returns
\* EFI_INVALID_PARAMETER and creates no device when the records with no
\* parent and the physical package flag are none or two or more, and
\* CreateAmlCpuTopologyTree runs only when there is exactly one.
C3_OneTopLevelNode ==
  cm.fault = "none" =>
    /\ (TopologyReturned /\ Cardinality(TopLevelProcNodes(gen.ProcNodeList)) # 1) => (pass.topo = EFI_INVALID_PARAMETER /\ ~HasDevice(aml.nodes))
    /\ pass.pc \in {"tree", "lpi"} => Cardinality(TopLevelProcNodes(gen.ProcNodeList)) = 1

\* BuildSsdtCpuTopologyTable has returned and the table was not yet freed.
BuildReturned == pass.pc = "idle" /\ pass.ret # "none" /\ pass.freeRet = "none"

\* C4: when a step after AmlCodeGenDefinitionBlock fails,
\* BuildSsdtCpuTopologyTable returns the status of that step and writes no
\* table, and it returns EFI_SUCCESS only with a table written.
C4_FirstErrorReturned ==
  (BuildReturned /\ aml.RootNode # "none") =>
    /\ pass.error # "none" => (pass.ret = pass.error /\ ~pass.Table.written)
    /\ pass.ret = EFI_SUCCESS => pass.Table.written


---------------------------------------------------------------------------
(* The properties of WriteAslName and of the token table.                  *)

UpperHex == <<"0", "1", "2", "3", "4", "5", "6", "7", "8", "9", "A", "B", "C", "D", "E", "F">>

\* The names written by the calls of WriteAslName that returned EFI_SUCCESS.
Written == {i \in 1..Len(unit.calls) : unit.fn = "WriteAslName" /\ unit.calls[i].r.Status = EFI_SUCCESS}

SeenBefore(i) == {unit.calls[j].Token : j \in 1..(i - 1)}

\* The token table was initialised with a count of 0 and no more tokens
\* than its capacity were added.
FreshTable ==
  /\ unit.fn = "TokenTableAdd"
  /\ unit.start = 0
  /\ Cardinality(SeenBefore(Len(unit.calls) + 1)) <= Len(TableOf(unit.gen).slots)

\* C12: on a table initialised with a count of 0, after calls of
\* TokenTableAdd with no more distinct tokens than the capacity, the index
\* returned for a token is the number of distinct tokens seen before its
\* first call, on every call with it; the count is the number of distinct
\* tokens and the slots below it hold them in that order; and a call with a
\* token seen before leaves the count and the slots as they were.
C12_TokenTableAdd ==
  FreshTable =>
    /\ \A i \in 1..Len(unit.calls), j \in 1..Len(unit.calls) : unit.calls[i].Token = unit.calls[j].Token => unit.calls[i].Index = unit.calls[j].Index
    /\ \A i \in 1..Len(unit.calls) : unit.calls[i].Token \notin SeenBefore(i) => unit.calls[i].Index = Cardinality(SeenBefore(i))
    /\ TableOf(unit.gen).LastIndex = Cardinality(SeenBefore(Len(unit.calls) + 1))
    /\ \A i \in 1..Len(unit.calls) : TableOf(unit.gen).slots[unit.calls[i].Index + 1] = unit.calls[i].Token
    /\ \A i \in 1..Len(unit.calls) : unit.calls[i].Token \in SeenBefore(i) => unit.calls[i].After = unit.calls[i].Before

\* Two tokens filled a table of two slots and the first was added again.
C12_Witness ==
  /\ FreshTable
  /\ Len(unit.calls) = 3
  /\ Len(TableOf(unit.gen).slots) = 2
  /\ unit.calls[1].Token = unit.calls[3].Token
  /\ unit.calls[1].Token # unit.calls[2].Token
  /\ unit.calls[3].Index = 0


---------------------------------------------------------------------------
(* The properties of the tree of devices.                                  *)

\* CreateTopologyFromProcHierarchy has returned EFI_SUCCESS.
SuccessfulPass == TopologyReturned /\ pass.topo = EFI_SUCCESS

Devices == {n \in 1..Len(aml.nodes) : aml.nodes[n].Type = "Device"}

\* The record a device was made for.
RecordOf(n) == gen.ProcNodeList[aml.nodes[n].Record]

\* The devices whose record has idle states.
LpiDevices == {n \in Devices : RecordOf(n).LpiToken # CM_NULL_TOKEN}

\* The packages of idle states in the order of their creation.
IsLpiPackage(node) == node.Type = "Lpi"
LpiPackages == SelectSeq(aml.nodes, IsLpiPackage)

OneTopLevelNode == Cardinality(TopLevelProcNodes(gen.ProcNodeList)) = 1

\* C14: in the tree of a pass that succeeded on a list with one top level
\* record, two devices under the same parent have two names.
C14_SiblingNames ==
  (SuccessfulPass /\ OneTopLevelNode) =>
    \A n \in Devices, o \in Devices : (n # o /\ aml.nodes[n].Parent = aml.nodes[o].Parent) => aml.nodes[n].Name # aml.nodes[o].Name


\* The devices made for the record at place i of the list.
DevicesOf(i) == {n \in Devices : aml.nodes[n].Record = i}

\* C15: after a pass on the processor hierarchy that succeeded there are as
\* many devices as records, one for each record of the list, the top level
\* record too, and the device of a record is under the device of the
\* record that is its parent (under the scope when it has no parent).
C15_OneDevicePerRecord ==
  SuccessfulPass =>
    /\ Cardinality(Devices) = gen.ProcNodeCount
    /\ \A i \in 1..gen.ProcNodeCount : Cardinality(DevicesOf(i)) = 1
    /\ \A n \in Devices :
         IF RecordOf(n).ParentToken = CM_NULL_TOKEN
         THEN aml.nodes[n].Parent = SB_SCOPE_NODE
         ELSE /\ aml.nodes[n].Parent \in Devices
              /\ RecordOf(aml.nodes[n].Parent).Token = RecordOf(n).ParentToken


---------------------------------------------------------------------------
(* The properties of the token table within a pass.                        *)

\* C16: a table that TokenTableInitialize allocated is freed once when
\* CreateTopologyFromProcHierarchy has returned and never more than once,
\* it is not freed while CreateAmlCpuTopologyTree or GenerateLpiStates may
\* use it, and after the return the generator has no pointer to it.
C16_TableFreedOnce ==
  /\ \A p \in 1..Len(gen.pools) : gen.pools[p].frees <= 1
  /\ pass.pc \in {"tree", "lpi"} => (gen.TokenTable.Table # NULL /\ gen.pools[gen.TokenTable.Table].frees = 0)
  /\ (TopologyReturned /\ gen.pools # <<>>) =>
       /\ \A p \in 1..Len(gen.pools) : gen.pools[p].frees = 1
       /\ gen.TokenTable.Table = NULL


---------------------------------------------------------------------------
(* The properties of the build with no processor hierarchy.                *)

\* The name of the Cpu made for the object at Index of the list.
CpuName(Index) == <<"C", UpperHex[(Index \div 256) + 1], UpperHex[((Index \div 16) % 16) + 1], UpperHex[(Index % 16) + 1]>>

\* BuildSsdtCpuTopologyTable gets to GetEArmObjProcHierarchyInfo on a
\* platform with no processor hierarchy record.
FlatBuild ==
  /\ pass.pc = "idle"
  /\ gen'.passes = gen.passes + 1
  /\ cm'.ProcNodes = <<>>
  /\ cm'.fault \notin {"AmlCodeGenDefinitionBlock", "AmlCodeGenScope"}

\* C17: when GetEArmObjProcHierarchyInfo returns EFI_NOT_FOUND the build
\* makes, under the \_SB scope, one Cpu device for each CM_ARM_GICC_INFO,
\* the one at place i named C and i in three hexadecimal digits with the
\* AcpiProcessorUid of that object as _UID, and nothing else: no cluster,
\* no _LPI, no idle state package, and the token table is neither
\* initialised nor used nor freed.  Another error of
\* GetEArmObjProcHierarchyInfo ends the build with nothing made.
C17_FlatTopology ==
  [][FlatBuild =>
       /\ gen'.TokenTable = gen.TokenTable
       /\ gen'.pools = gen.pools
       /\ pass'.topo = "none"
       /\ IF cm'.fault = "GetEArmObjProcHierarchyInfo"
          THEN /\ aml'.nodes = <<>>
               /\ ~pass'.Table.written
               /\ pass'.error = EFI_OUT_OF_RESOURCES
          ELSE /\ Len(aml'.nodes) <= Len(cm'.GicC)
               /\ \A n \in 1..Len(aml'.nodes) :
                    /\ aml'.nodes[n].Type = "Device"
                    /\ aml'.nodes[n].Parent = SB_SCOPE_NODE
                    /\ aml'.nodes[n].Name = CpuName(n - 1)
                    /\ aml'.nodes[n].Uid \in {NO_UID, cm'.GicC[n].AcpiProcessorUid}
                    /\ aml'.nodes[n].Lpi = <<>>
                    /\ aml'.nodes[n].States = <<>>
               /\ (cm'.fault = "none" /\ cm'.GicC # <<>>) => pass'.Table.written
               /\ pass'.Table.written =>
                    /\ Len(aml'.nodes) = Len(cm'.GicC)
                    /\ pass'.Table.nodes = aml'.nodes
                    /\ \A n \in 1..Len(aml'.nodes) : aml'.nodes[n].Uid = cm'.GicC[n].AcpiProcessorUid]_vars

\* A table with the two Cpus C000 and C001 was made on a platform with no
\* processor hierarchy record.
C17_Witness ==
  /\ BuildReturned
  /\ cm.ProcNodes = <<>>
  /\ pass.Table.written
  /\ Len(pass.Table.nodes) = 2
  /\ pass.Table.nodes[2].Name = <<"C", "0", "0", "1">>
  /\ pass.Table.nodes[2].Uid = 41


---------------------------------------------------------------------------
(* The properties of the encoders' parameter checks.                       *)

AddressSpaceEncoders ==
  {"AmlCodeGenRdDWordIo", "AmlCodeGenRdDWordMemory", "AmlCodeGenRdWordBusNumber", "AmlCodeGenRdQWordMemory"}

\* The TypeSpecificFlags that the encoder fn gives to the address space
\* descriptor for the arguments a.
SpecificFlagsOf(fn, a) ==
  IF fn = "AmlCodeGenRdDWordIo" THEN RdIoRangeSpecificFlags(a.IsaRanges, a.IsDenseTranslation, a.IsTypeStatic)
  ELSE IF fn = "AmlCodeGenRdWordBusNumber" THEN 0
  ELSE MemoryRangeSpecificFlags(a.Cacheable, a.IsReadWrite, a.MemoryRangeType, a.IsTypeStatic)

\* The width in bytes of the fields of the descriptor that fn makes.
FieldSizeOf(fn) ==
  IF fn = "AmlCodeGenRdWordBusNumber" THEN SIZE_UINT16
  ELSE IF fn = "AmlCodeGenRdQWordMemory" THEN SIZE_UINT64
  ELSE SIZE_UINT32

\* What CheckAddressSpaceFields returns for the fields that fn passes.
FieldsStatus(fn, a) ==
  LET Field(x) == ZeroExtend(Truncate(x, FieldSizeOf(fn)), SIZE_UINT64) IN
  CheckAddressSpaceFields(a.IsMinFixed, a.IsMaxFixed, Field(a.AddressGranularity), Field(a.AddressMinimum), Field(a.AddressMaximum), Field(a.AddressTranslation), Field(a.RangeLength))

\* The call returned EFI_INVALID_PARAMETER, made no node and left the list
\* and the caller's variable as they were.
RefusedUntouched ==
  /\ call.status = EFI_INVALID_PARAMETER
  /\ call.RdNode = NULL
  /\ ~call.deleted
  /\ rdList = call.prevList
  /\ slot = call.prevSlot

\* C18: an address space encoder returns EFI_INVALID_PARAMETER, with no
\* node made and the list and the caller's variable untouched, when the
\* type specific flags are 0xFF, when ResourceSourceIndex is not 0, when
\* ResourceSource is given, when both NameOpNode and NewRdNode are NULL,
\* or when CheckAddressSpaceFields refuses the fields; the interrupt, the
\* register and the End Tag encoders do the same when both the owner and
\* NewRdNode are NULL.
C18_ParametersRefused ==
  /\ (/\ call.fn \in AddressSpaceEncoders
      /\ \/ SpecificFlagsOf(call.fn, call.args) = 255
         \/ call.args.ResourceSourceIndex # 0
         \/ call.args.ResourceSource # NULL_STRING
         \/ (call.ParentNode = NULL_OBJECT /\ ~call.NewRdNode)
         \/ EFI_ERROR(FieldsStatus(call.fn, call.args))) => RefusedUntouched
  /\ (/\ call.fn \in {"AmlCodeGenRdInterrupt", "AmlCodeGenRdRegister", "AmlCodeGenEndTag"}
      /\ call.ParentNode = NULL_OBJECT
      /\ ~call.NewRdNode) => RefusedUntouched

\* AmlCodeGenRdQWordMemory was called on the name of a buffer that holds
\* its End Tag, with a ResourceSourceIndex of 1 and nothing else to refuse.
C18_Witness ==
  /\ call.fn = "AmlCodeGenRdQWordMemory"
  /\ call.args.ResourceSourceIndex = 1
  /\ call.args.ResourceSource = NULL_STRING
  /\ SpecificFlagsOf(call.fn, call.args) # 255
  /\ ~EFI_ERROR(FieldsStatus(call.fn, call.args))
  /\ call.ParentNode = "CrsName"
  /\ call.prevList = <<1>>
  /\ RefusedUntouched


---------------------------------------------------------------------------
(* The properties of the names of the Cpus.                                *)

\* The token whose children CreateAmlCpuTopologyTree puts under the node
\* Parent: that of the top level record for the \_SB scope, that of the
\* record of the device otherwise.
TokenUnder(Parent) ==
  IF Parent = SB_SCOPE_NODE
  THEN gen.ProcNodeList[CHOOSE Index \in TopLevelProcNodes(gen.ProcNodeList) : TRUE].Token
  ELSE RecordOf(Parent).Token

\* The places in ProcNodeList of the records that are children of a token.
ChildRecords(Token) == {i \in 1..Len(gen.ProcNodeList) : gen.ProcNodeList[i].ParentToken = Token}

\* The nodes that are parents of devices: the \_SB scope and the clusters.
ParentNodes == {SB_SCOPE_NODE} \cup {n \in Devices : RecordOf(n).GicCToken = CM_NULL_TOKEN}

---------------------------------------------------------------------------
(* The properties of the nodes after a failure.                            *)

\* C20: when one step of a call fails (the allocation of the node, a test
\* of the owner, the insertion into the list, a lookup of the
\* configuration manager, the serialization), no node made during the call
\* is left: an encoder that fails after it made its node has deleted it,
\* and the node is neither allocated nor in the list; a build that fails
\* has deleted its definition block, or never made it.
C20_NothingLeft ==
  /\ (Returned /\ EFI_ERROR(call.status) /\ call.ParentNode # NULL_OBJECT /\ call.RdNode # NULL) =>
       /\ call.deleted
       /\ call.RdNode \in freed
       /\ call.RdNode \notin DOMAIN heap
       /\ \A i \in 1..Len(rdList) : rdList[i] # call.RdNode
  /\ (Returned /\ EFI_ERROR(call.status) /\ call.RdNode = NULL) =>
       /\ ~call.deleted
       /\ rdList = call.prevList
  /\ (pass.pc = "idle" /\ pass.ret # "none" /\ pass.error # "none") =>
       /\ aml.RootNode # "live"
       /\ aml.RootNode = "none" => (aml.nodes = <<>> /\ cm.fault = "AmlCodeGenDefinitionBlock")

\* AmlCodeGenRdRegister made its node and the insertion into the list of
\* the buffer failed.
C20_Witness ==
  /\ call.fn = "AmlCodeGenRdRegister"
  /\ call.ParentNode = "CrsName"
  /\ call.prevList = <<1>>
  /\ call.status = EFI_OUT_OF_RESOURCES
  /\ call.RdNode = 2
  /\ call.deleted
  /\ 2 \in freed

---------------------------------------------------------------------------
(* The properties of the token table over the passes on one generator.     *)

\* No more distinct tokens were added than the table has slots, as in a
\* pass, where the tokens come from the records the table was sized for.
AsInAPass == Cardinality(SeenBefore(Len(unit.calls) + 1)) <= Len(TableOf(unit.gen).slots)

\* C21: every table that TokenTableInitialize makes, the first or a later
\* one of the generator, starts with a count of 0 and zero in every slot;
\* the first token added to it gets index 0, and its count, which is the
\* number of packages GenerateLpiStates emits, is the number of distinct
\* tokens added to it.
C21_EmptyTableEachPass ==
  /\ unit.fn = "TokenTableInitialize" =>
       /\ TableOf(unit.gen).LastIndex = 0
       /\ \A i \in 1..Len(TableOf(unit.gen).slots) : TableOf(unit.gen).slots[i] = CM_NULL_TOKEN
  /\ (unit.fn = "TokenTableAdd" /\ AsInAPass) =>
       /\ unit.calls[1].Index = 0
       /\ unit.gen.TokenTable.LastIndex = Cardinality(SeenBefore(Len(unit.calls) + 1))

\* C22: the count of the token table is never above the number of slots
\* allocated for it and TokenTableAdd stores in no slot past the last one,
\* on the first table of a generator and on every later one.
C22_CountWithinCapacity ==
  (unit.fn \in {"TokenTableInitialize", "TokenTableAdd"} /\ AsInAPass) =>
    /\ unit.gen.TokenTable.LastIndex <= Len(TableOf(unit.gen).slots)
    /\ unit.gen.pools[unit.gen.TokenTable.Table].past = <<>>

---------------------------------------------------------------------------
(* The properties of LinkRdNode.                                           *)

\* A descriptor encoder made its node and gave it to LinkRdNode with an
\* owner.
LinkedWithOwner ==
  /\ Returned
  /\ call.fn \in DescriptorEncoders
  /\ call.RdNode # NULL
  /\ call.ParentNode # NULL_OBJECT

\* The list of the buffer before the call ended with an End Tag.
HadEndTag == call.prevList # <<>> /\ IsEndTag(heap[call.prevList[Len(call.prevList)]])

\* C23: with an owner, LinkRdNode returns EFI_INVALID_PARAMETER when the
\* owner is no Name or when its second fixed argument is missing, is no
\* object node or is no Buffer; when AmlAppendRdNode fails it returns the
\* status of AmlAppendRdNode.  In each of these cases the node is deleted,
\* the list is as before, and the status returned is that error and not
\* the status of the deletion.
C23_LinkErrors ==
  LinkedWithOwner =>
    /\ (call.ParentNode # "CrsName") => (call.status = EFI_INVALID_PARAMETER /\ call.deleted)
    /\ (call.ParentNode = "CrsName" /\ ~HadEndTag) => (call.status \in {EFI_INVALID_PARAMETER, EFI_OUT_OF_RESOURCES} /\ call.deleted)
    /\ (call.ParentNode = "CrsName" /\ HadEndTag /\ call.deleted) => call.status = EFI_OUT_OF_RESOURCES
    /\ (call.ParentNode = "CrsName" /\ HadEndTag /\ ~call.deleted) => (call.status = EFI_SUCCESS /\ rdList = SubSeq(call.prevList, 1, Len(call.prevList) - 1) \o <<call.RdNode, call.prevList[Len(call.prevList)]>>)
    /\ call.deleted =>
         /\ EFI_ERROR(call.status)
         /\ rdList = call.prevList
         /\ call.RdNode \in freed
         /\ call.RdNode \notin DOMAIN heap

\* AmlCodeGenRdDWordMemory was called on a Name whose value is a Package.
C23_Witness ==
  /\ LinkedWithOwner
  /\ call.fn = "AmlCodeGenRdDWordMemory"
  /\ call.ParentNode = "PkgName"
  /\ call.status = EFI_INVALID_PARAMETER
  /\ call.deleted

---------------------------------------------------------------------------
(* The properties of the test of the flags.                                *)

\* The loop of the innermost CreateAmlCpuTopologyTree is at a child record
\* whose flags are not those of its kind: a record with a GicCToken that
\* has not the flags of a Cpu, or one without that has not those of a
\* cluster.
AtBadFlags ==
  /\ pass.pc = "tree"
  /\ LET Frame == pass.stack[Len(pass.stack)] IN
     /\ Frame.Index < gen.ProcNodeCount
     /\ LET Info == gen.ProcNodeList[Frame.Index + 1] IN
        /\ Info.ParentToken = Frame.NodeToken
        /\ IF Info.GicCToken # CM_NULL_TOKEN
           THEN BitAnd(Info.Flags, PPTT_PROCESSOR_MASK) # PPTT_CPU_PROCESSOR_MASK
           ELSE BitAnd(Info.Flags, PPTT_PROCESSOR_MASK) # PPTT_CLUSTER_PROCESSOR_MASK

\* C24: at a child record whose flags are not those of a Cpu when it has a
\* GicCToken, or not those of a cluster when it has none, the pass ends
\* with EFI_INVALID_PARAMETER: no device is made for that record or for a
\* later one, no call of CreateAmlCpuTopologyTree is made for it, and no
\* table is written.
C24_BadFlags ==
  [][AtBadFlags =>
       /\ pass'.pc = "idle"
       /\ pass'.stack = <<>>
       /\ pass'.topo = EFI_INVALID_PARAMETER
       /\ pass'.error = EFI_INVALID_PARAMETER
       /\ ~pass'.Table.written
       /\ aml'.nodes = aml.nodes]_vars

\* A pass made a Cpu for the second record and ended at the third, a Cpu
\* with the flags of a cluster.
C24_Witness ==
  /\ TopologyReturned
  /\ pass.topo = EFI_INVALID_PARAMETER
  /\ cm.fault = "none"
  /\ Len(gen.ProcNodeList) = 3
  /\ gen.ProcNodeList[3].GicCToken # CM_NULL_TOKEN
  /\ BitAnd(gen.ProcNodeList[3].Flags, PPTT_PROCESSOR_MASK) # PPTT_CPU_PROCESSOR_MASK
  /\ Devices # {}
  /\ \A n \in Devices : aml.nodes[n].Record = 2

---------------------------------------------------------------------------
(* The properties of the clusters.                                         *)

\* The devices that CreateAmlCluster made for a record.
Clusters == {n \in Devices : aml.nodes[n].Record # 0 /\ RecordOf(n).GicCToken = CM_NULL_TOKEN}

\* The clusters under the parent of n made for records before that of n.
ClustersBefore(n) ==
  {m \in Clusters : aml.nodes[m].Parent = aml.nodes[n].Parent /\ aml.nodes[m].Record < aml.nodes[n].Record}

\* C25: the cluster made for the j-th cluster child of a parent, counted
\* from 0 in the order of the list, is named C and j in three hexadecimal
\* digits and has j as _UID, with the hardware id of a processor
\* container; two clusters under one parent have two _UIDs.
C25_ClusterUid ==
  /\ \A n \in Clusters :
       /\ aml.nodes[n].Name = CpuName(Cardinality(ClustersBefore(n)))
       /\ aml.nodes[n].Uid = Cardinality(ClustersBefore(n))
       /\ aml.nodes[n].Hid = ACPI_HID_PROCESSOR_CONTAINER_DEVICE
       /\ \A m \in ClustersBefore(n) : m < n
  /\ \A n \in Clusters, m \in Clusters :
       (n # m /\ aml.nodes[n].Parent = aml.nodes[m].Parent) => aml.nodes[n].Uid # aml.nodes[m].Uid

\* A pass made two clusters under the \_SB scope, C000 with _UID 0 and C001
\* with _UID 1.
C25_Witness ==
  /\ SuccessfulPass
  /\ Cardinality(Clusters) = 2
  /\ \A n \in Clusters : aml.nodes[n].Parent = SB_SCOPE_NODE
  /\ \E n \in Clusters : aml.nodes[n].Name = <<"C", "0", "0", "1">> /\ aml.nodes[n].Uid = 1
  /\ \E n \in Clusters : aml.nodes[n].Name = <<"C", "0", "0", "0">> /\ aml.nodes[n].Uid = 0

---------------------------------------------------------------------------
(* The properties of the recursion.                                        *)

\* C26: on a list with one top level record the pass does not run out of
\* stack, whatever the tokens and the parent tokens of the other records
\* are: the calls of CreateAmlCpuTopologyTree in progress and the devices
\* made are never more than the records.
C26_BoundedRecursion ==
  OneTopLevelNode =>
    /\ pass.pc # "crashed"
    /\ Len(pass.stack) <= Len(gen.ProcNodeList)
    /\ Cardinality(Devices) <= Len(gen.ProcNodeList)

---------------------------------------------------------------------------
(* The properties of the flag composers.                                   *)

\* 1 when the condition holds and 0 when not.
Bit(b) == IF b THEN 1 ELSE 0

\* The arguments of a call were all within 0..3.
InRange(n) ==
  IF unit.fn = "RdIoRangeSpecificFlags" THEN n.IsaRanges <= 3
  ELSE n.Cacheable <= 3 /\ n.MemoryRangeType <= 3

\* C27: a flag composer returns 0xFF exactly when IsaRanges, or Cacheable
\* or MemoryRangeType, is above 3.  Otherwise RdIoRangeSpecificFlags
\* returns IsaRanges in bits 0-1, bit 4 when the type is not static and
\* bit 5 when the translation is not dense, and MemoryRangeSpecificFlags
\* returns bit 0 when read/write, Cacheable in bits 1-2, MemoryRangeType in
\* bits 3-4 and bit 5 when the type is not static; no other bit is set,
\* and two calls with different arguments return different bytes.
C27_SpecificFlags ==
  unit.fn \in {"RdIoRangeSpecificFlags", "MemoryRangeSpecificFlags"} =>
    /\ \A i \in 1..Len(unit.calls) :
         LET n == unit.calls[i] IN
         /\ (n.r = 255) <=> ~InRange(n)
         /\ (InRange(n) /\ unit.fn = "RdIoRangeSpecificFlags") =>
              n.r = n.IsaRanges + (16 * Bit(~n.IsTypeStatic)) + (32 * Bit(~n.IsDenseTranslation))
         /\ (InRange(n) /\ unit.fn = "MemoryRangeSpecificFlags") =>
              n.r = Bit(n.IsReadWrite) + (2 * n.Cacheable) + (8 * n.MemoryRangeType) + (32 * Bit(~n.IsTypeStatic))
    /\ \A i \in 1..Len(unit.calls), j \in 1..Len(unit.calls) :
         (InRange(unit.calls[i]) /\ InRange(unit.calls[j]) /\ unit.calls[i].r = unit.calls[j].r) => unit.calls[i] = unit.calls[j]

\* MemoryRangeSpecificFlags was called with a range type of 2 and no
\* cacheability, and with a cacheability of 2 and the range type 1.
C27_Witness ==
  /\ unit.fn = "MemoryRangeSpecificFlags"
  /\ Len(unit.calls) = 2
  /\ unit.calls[1].Cacheable = 0 /\ unit.calls[1].MemoryRangeType = 2 /\ unit.calls[1].r = 16
  /\ unit.calls[2].Cacheable = 2 /\ unit.calls[2].MemoryRangeType = 1 /\ unit.calls[2].IsReadWrite /\ unit.calls[2].IsTypeStatic
  /\ unit.calls[2].r = 13

---------------------------------------------------------------------------
(* The properties of the general flags.                                    *)

\* The arguments with the other value of IsResourceConsumer.
OtherConsumer(a) == [a EXCEPT !.IsResourceConsumer = ~@]

\* An address space encoder made a descriptor.
SpaceDescriptorMade == Returned /\ call.fn \in AddressSpaceEncoders /\ call.RdNode # NULL

\* C28: an address space encoder called with the other value of
\* IsResourceConsumer, on the same buffer and with everything else the
\* same, returns the same status and makes the same bytes; in every
\* address space descriptor made the general flags have bit 1 when the
\* decode is not positive, bit 2 when the minimum is fixed, bit 3 when the
\* maximum is fixed, and no other bit.
C28_ConsumerIgnored ==
  /\ Fresh =>
       \A NameOpNode \in AnyParent, NewRdNode \in BOOLEAN :
         \A env \in EnvsOf(NameOpNode, FALSE) :
           /\ \A a \in AnyDWordIoArgs : AmlCodeGenRdDWordIo(OtherConsumer(a), NameOpNode, NewRdNode, env) = AmlCodeGenRdDWordIo(a, NameOpNode, NewRdNode, env)
           /\ \A a \in AnyDWordMemoryArgs : AmlCodeGenRdDWordMemory(OtherConsumer(a), NameOpNode, NewRdNode, env) = AmlCodeGenRdDWordMemory(a, NameOpNode, NewRdNode, env)
           /\ \A a \in AnyWordBusNumberArgs : AmlCodeGenRdWordBusNumber(OtherConsumer(a), NameOpNode, NewRdNode, env) = AmlCodeGenRdWordBusNumber(a, NameOpNode, NewRdNode, env)
           /\ \A a \in AnyQWordMemoryArgs : AmlCodeGenRdQWordMemory(OtherConsumer(a), NameOpNode, NewRdNode, env) = AmlCodeGenRdQWordMemory(a, NameOpNode, NewRdNode, env)
  /\ SpaceDescriptorMade =>
       call.buffer[SIZEOF_LARGE_HEADER + 2] = (2 * Bit(~call.args.IsPosDecode)) + (4 * Bit(call.args.IsMinFixed)) + (8 * Bit(call.args.IsMaxFixed))

\* AmlCodeGenRdDWordIo made a descriptor that is no consumer, with a
\* decode that is not positive and both ends fixed.
C28_Witness ==
  /\ SpaceDescriptorMade
  /\ call.fn = "AmlCodeGenRdDWordIo"
  /\ call.status = EFI_SUCCESS
  /\ ~call.args.IsResourceConsumer
  /\ ~call.args.IsPosDecode
  /\ call.buffer[SIZEOF_LARGE_HEADER + 2] = 14

---------------------------------------------------------------------------
(* The properties of the bus number descriptor.                            *)

\* The UINT32 arguments of AmlCodeGenRdWordBusNumber in the order of the
\* fields of the descriptor.
BusNumberFields(a) == <<a.AddressGranularity, a.AddressMinimum, a.AddressMaximum, a.AddressTranslation, a.RangeLength>>

\* A UINT32 above 0xFFFF.
AboveUint16(x) == x[3] # 0 \/ x[4] # 0

\* C29: AmlCodeGenRdWordBusNumber returns EFI_INVALID_PARAMETER and makes
\* no node when one of its UINT32 arguments is above 0xFFFF, and when it
\* returns EFI_SUCCESS the five 16-bit fields of the descriptor hold the
\* values of the arguments.
C29_BusNumberFields ==
  (Returned /\ call.fn = "AmlCodeGenRdWordBusNumber") =>
    /\ (\E k \in 1..5 : AboveUint16(BusNumberFields(call.args)[k])) => (call.status = EFI_INVALID_PARAMETER /\ call.RdNode = NULL)
    /\ (call.status = EFI_SUCCESS /\ call.RdNode # NULL) =>
         \A k \in 1..5 :
           ZeroExtend(SubSeq(call.buffer, SIZEOF_LARGE_HEADER + 3 + (SIZE_UINT16 * (k - 1)) + 1, SIZEOF_LARGE_HEADER + 3 + (SIZE_UINT16 * k)), SIZE_UINT32) = BusNumberFields(call.args)[k]

---------------------------------------------------------------------------
(* The properties of the references to the packages of idle states.        *)

\* The names of the states of the CM_ARM_LPI_INFO objects that the
\* reference list of a token names, in the order of the list.
StatesOf(Token) == [i \in 1..Len(CmRefObjects[Token]) |-> LpiInfoObjects[CmRefObjects[Token][i]].StateName]

\* The devices whose _LPI method returns the package at place k.
ReferencesTo(k) == {n \in Devices : aml.nodes[n].Lpi = SB_SCOPE_PREFIX \o LpiPackages[k].Name}

====
